---- MODULE Spec2Model ----
(***************************************************************************)
(* Multi-tenant Databricks MCP server: the credential resolver             *)
(* (parseTenantCredentials / validateCredentials), the worker's fetch      *)
(* handler, the request pipeline and the methods of DatabricksClientImpl,  *)
(* and the handlers of the registered tools.                               *)
(*                                                                         *)
(* JavaScript values are tagged records, strings are sequences of chunks   *)
(* (characters for hosts and header values, words for messages), and a     *)
(* JSON text is a sequence of lexemes.                                     *)
(***************************************************************************)
EXTENDS Integers, Sequences, FiniteSets, TLC

----------------------------------------------------------------------------
(* JavaScript values *)

Undefined == [t |-> "undefined"]

Null == [t |-> "null"]

Bool(b) == [t |-> "bool", b |-> b]

Num(n) == [t |-> "num", nan |-> FALSE, n |-> n]

NaN == [t |-> "num", nan |-> TRUE, n |-> 0]

\* the number above every double
Infinity == [t |-> "infinity", neg |-> FALSE]

\* the number below every double
NegativeInfinity == [t |-> "infinity", neg |-> TRUE]

Str(s) == [t |-> "str", s |-> s]

\* a string that holds a JSON text or a response body: its lexemes, white
\* space included
Text(lex) == [t |-> "text", lex |-> lex]

Arr(a) == [t |-> "arr", a |-> a]

\* an object is its list of members, in insertion order
Obj(m) == [t |-> "obj", m |-> m]

Member(k, v) == [k |-> k, v |-> v]

\* ToBoolean: what `!x`, `x ? a : b` and `x || y` test
Truthy(v) ==
    CASE v.t = "undefined" -> FALSE
      [] v.t = "null" -> FALSE
      [] v.t = "bool" -> v.b
      [] v.t = "num" -> ~v.nan /\ v.n # 0
      [] v.t = "str" -> v.s # <<>>
      [] v.t = "text" -> v.lex # <<>>
      [] OTHER -> TRUE

\* x || y
Or(x, y) == IF Truthy(x) THEN x ELSE y

HasKey(o, k) == \E i \in DOMAIN o.m : o.m[i].k = k

\* o.k on a value that is not null or undefined: primitives and arrays have
\* none of the keys read here
Get(o, k) ==
    IF o.t = "obj" /\ HasKey(o, k)
    THEN o.m[CHOOSE i \in DOMAIN o.m : o.m[i].k = k].v
    ELSE Undefined

Digits == <<"0", "1", "2", "3", "4", "5", "6", "7", "8", "9">>

IsDigit(c) == \E i \in DOMAIN Digits : Digits[i] = c

DigitValue(c) == (CHOOSE i \in DOMAIN Digits : Digits[i] = c) - 1

\* a before b, for two keys that are written in digits with no zero in front
IndexBefore(a, b) ==
    \/ Len(a) < Len(b)
    \/ /\ Len(a) = Len(b)
       /\ \E i \in DOMAIN a :
             /\ DigitValue(a[i]) < DigitValue(b[i])
             /\ \A j \in 1..(i - 1) : a[j] = b[j]

\* a key written in digits with no zero in front, one character to a chunk
IsDecimalKey(k) ==
    /\ k # <<>>
    /\ \A i \in DOMAIN k : IsDigit(k[i])
    /\ (Len(k) > 1 => k[1] # "0")

\* o[k] = v while an object literal or a JSON text is read: a repeated key
\* keeps its place and takes the later value; a new key that is an array index
\* (the decimal text of an integer in 0 .. 2^32 - 2, so none after 4294967294)
\* goes among the array indices at the front, which are kept ascending; any
\* other new key goes to the end
Put(m, k, v) ==
    IF \E i \in DOMAIN m : m[i].k = k
    THEN [i \in DOMAIN m |-> IF m[i].k = k THEN Member(k, v) ELSE m[i]]
    ELSE IF IsDecimalKey(k)
            /\ ~IndexBefore(<<"4", "2", "9", "4", "9", "6", "7", "2", "9", "4">>, k)
    THEN LET n == Cardinality({i \in DOMAIN m :
                      IsDecimalKey(m[i].k) /\ IndexBefore(m[i].k, k)})
         IN  SubSeq(m, 1, n) \o <<Member(k, v)>> \o SubSeq(m, n + 1, Len(m))
    ELSE Append(m, Member(k, v))

----------------------------------------------------------------------------
(* Number.parseInt(text, 10) on a string of characters *)

\* StrWhiteSpaceChar is white space and line terminators: space, tab, line
\* feed, carriage return, form feed, vertical tab, no-break space, byte order
\* mark and the Ogham space mark (the spaces and separators from U+2000 on
\* cannot be written in a string of this module)
RECURSIVE SkipWhitespace(_)
SkipWhitespace(s) ==
    IF s # <<>> /\ Head(s) \in {" ", "\t", "\n", "\r", "\f", "", " ", "﻿", " "}
    THEN SkipWhitespace(Tail(s))
    ELSE s

\* the digits at the front of s, folded left to right, how many there are, and
\* whether their value is above 2^31 - 1: such a value is not counted
RECURSIVE ScanDigits(_, _, _, _)
ScanDigits(s, acc, count, beyond) ==
    IF s # <<>> /\ IsDigit(Head(s))
    THEN LET d == DigitValue(Head(s))
             over == beyond \/ acc > (2147483647 - d) \div 10
         IN  ScanDigits(Tail(s), IF over THEN acc ELSE acc * 10 + d, count + 1, over)
    ELSE [value |-> acc, count |-> count, beyond |-> beyond]

ParseInt(text) ==
    LET s == SkipWhitespace(text)
        signed == s # <<>> /\ Head(s) \in {"-", "+"}
        negative == s # <<>> /\ Head(s) = "-"
        scan == ScanDigits(IF signed THEN Tail(s) ELSE s, 0, 0, FALSE)
    IN  IF scan.count = 0 THEN NaN
        \* a number above 2^31 - 1 in size: its sign is kept, not its digits
        ELSE IF scan.beyond
        THEN [t |-> "num", nan |-> FALSE,
              n |-> IF negative THEN 0 - 2147483647 ELSE 2147483647,
              beyond |-> TRUE]
        ELSE Num(IF negative THEN 0 - scan.value ELSE scan.value)

----------------------------------------------------------------------------
(* JSON texts: sequences of lexemes *)

P(c) == [k |-> "punct", s |-> <<c>>, n |-> 0]

S(w) == [k |-> "string", s |-> w, n |-> 0]

N(i) == [k |-> "number", s |-> <<>>, n |-> i]

\* a number written beyond the range of a double, its sign a chunk of its
\* own: <<"1e999">>, <<"-", "1e999">>
Big(digits) == [k |-> "number", s |-> digits, n |-> 0]

\* a bare word: null, true and false are JSON, anything else is not
W(w) == [k |-> "word", s |-> <<w>>, n |-> 0]

\* one character of white space between lexemes, or alone
Sp(c) == [k |-> "space", s |-> <<c>>, n |-> 0]

\* the text without the white space the grammar allows around its lexemes:
\* space, tab, line feed and carriage return
RECURSIVE SkipJsonWhitespace(_)
SkipJsonWhitespace(ts) ==
    IF ts = <<>> THEN <<>>
    ELSE IF Head(ts).k = "space" /\ Head(ts).s[1] \in {" ", "\t", "\n", "\r"}
    THEN SkipJsonWhitespace(Tail(ts))
    ELSE <<Head(ts)>> \o SkipJsonWhitespace(Tail(ts))

\* the text of the message depends on the engine: one text stands for them
SyntaxError == [kind |-> "SyntaxError", message |-> Str(<<"Unexpected", "token">>)]

Parsed(v, rest) == [ok |-> TRUE, value |-> v, rest |-> rest]

NotParsed == [ok |-> FALSE, value |-> Undefined, rest |-> <<>>]

IsPunct(ts, c) == ts # <<>> /\ Head(ts) = P(c)

RECURSIVE ParseValue(_)
RECURSIVE ParseMembers(_, _)
RECURSIVE ParseElements(_, _)

\* members after "{" or after a ",": string ":" value, then "," or "}"
ParseMembers(ts, m) ==
    IF ts = <<>> \/ Head(ts).k # "string" \/ ~IsPunct(Tail(ts), ":")
    THEN NotParsed
    ELSE LET r == ParseValue(Tail(Tail(ts)))
         IN  IF ~r.ok THEN NotParsed
             ELSE LET mm == Put(m, Head(ts).s, r.value)
                  IN  IF IsPunct(r.rest, "}") THEN Parsed(Obj(mm), Tail(r.rest))
                      ELSE IF IsPunct(r.rest, ",") THEN ParseMembers(Tail(r.rest), mm)
                      ELSE NotParsed

\* elements after "[" or after a ",": value, then "," or "]"
ParseElements(ts, a) ==
    LET r == ParseValue(ts)
    IN  IF ~r.ok THEN NotParsed
        ELSE LET aa == Append(a, r.value)
             IN  IF IsPunct(r.rest, "]") THEN Parsed(Arr(aa), Tail(r.rest))
                 ELSE IF IsPunct(r.rest, ",") THEN ParseElements(Tail(r.rest), aa)
                 ELSE NotParsed

ParseValue(ts) ==
    IF ts = <<>> THEN NotParsed
    ELSE LET h == Head(ts)
             rest == Tail(ts)
         IN  CASE h.k = "string" -> Parsed(Str(h.s), rest)
               [] h.k = "number" ->
                    Parsed(IF h.s = <<>> THEN Num(h.n)
                           ELSE IF Head(h.s) = "-" THEN NegativeInfinity
                           ELSE Infinity, rest)
               [] h = W("null") -> Parsed(Null, rest)
               [] h = W("true") -> Parsed(Bool(TRUE), rest)
               [] h = W("false") -> Parsed(Bool(FALSE), rest)
               [] h = P("{") ->
                    IF IsPunct(rest, "}") THEN Parsed(Obj(<<>>), Tail(rest))
                    ELSE ParseMembers(rest, <<>>)
               [] h = P("[") ->
                    IF IsPunct(rest, "]") THEN Parsed(Arr(<<>>), Tail(rest))
                    ELSE ParseElements(rest, <<>>)
               [] OTHER -> NotParsed

\* JSON.parse(text): the value, or a thrown SyntaxError
JSONParse(text) ==
    LET r == ParseValue(SkipJsonWhitespace(text))
    IN  IF r.ok /\ r.rest = <<>>
        THEN [ok |-> TRUE, value |-> r.value]
        ELSE [ok |-> FALSE, value |-> Undefined]

RECURSIVE StringifyValue(_)
RECURSIVE StringifyMembers(_, _)
RECURSIVE StringifyElements(_, _)

\* a member whose value is undefined is left out
StringifyMembers(m, first) ==
    IF m = <<>> THEN <<>>
    ELSE IF Head(m).v.t = "undefined" THEN StringifyMembers(Tail(m), first)
    ELSE (IF first THEN <<>> ELSE <<P(",")>>)
         \o <<S(Head(m).k), P(":")>> \o StringifyValue(Head(m).v)
         \o StringifyMembers(Tail(m), FALSE)

\* an element that is undefined is written as null
StringifyElements(a, first) ==
    IF a = <<>> THEN <<>>
    ELSE (IF first THEN <<>> ELSE <<P(",")>>)
         \o (IF Head(a).t = "undefined" THEN <<W("null")>> ELSE StringifyValue(Head(a)))
         \o StringifyElements(Tail(a), FALSE)

StringifyValue(v) ==
    CASE v.t = "null" -> <<W("null")>>
      [] v.t = "bool" -> <<W(IF v.b THEN "true" ELSE "false")>>
      [] v.t = "num" -> IF v.nan THEN <<W("null")>> ELSE <<N(v.n)>>
      [] v.t = "infinity" -> <<W("null")>>
      [] v.t = "str" -> <<S(v.s)>>
      [] v.t = "arr" -> <<P("[")>> \o StringifyElements(v.a, TRUE) \o <<P("]")>>
      [] v.t = "obj" -> <<P("{")>> \o StringifyMembers(v.m, TRUE) \o <<P("}")>>

\* JSON.stringify(v) of a value that is not undefined
JSONStringify(v) == StringifyValue(v)

\* a line feed and the indentation of a nesting depth, two spaces a level
NewLine(depth) == <<Sp("\n")>> \o [i \in 1..(2 * depth) |-> Sp(" ")]

RECURSIVE IndentValue(_, _)
RECURSIVE IndentMembers(_, _, _)
RECURSIVE IndentElements(_, _, _)

IndentMembers(m, depth, first) ==
    IF m = <<>> THEN <<>>
    ELSE IF Head(m).v.t = "undefined" THEN IndentMembers(Tail(m), depth, first)
    ELSE (IF first THEN <<>> ELSE <<P(",")>>) \o NewLine(depth)
         \o <<S(Head(m).k), P(":"), Sp(" ")>> \o IndentValue(Head(m).v, depth)
         \o IndentMembers(Tail(m), depth, FALSE)

IndentElements(a, depth, first) ==
    IF a = <<>> THEN <<>>
    ELSE (IF first THEN <<>> ELSE <<P(",")>>) \o NewLine(depth)
         \o (IF Head(a).t = "undefined" THEN <<W("null")>>
             ELSE IndentValue(Head(a), depth))
         \o IndentElements(Tail(a), depth, FALSE)

\* JSON.stringify(v, null, 2) is IndentValue(v, 0)
IndentValue(v, depth) ==
    CASE v.t = "arr" ->
            IF v.a = <<>> THEN <<P("["), P("]")>>
            ELSE <<P("[")>> \o IndentElements(v.a, depth + 1, TRUE)
                 \o NewLine(depth) \o <<P("]")>>
      [] v.t = "obj" ->
            LET inner == IndentMembers(v.m, depth + 1, TRUE)
            IN  IF inner = <<>> THEN <<P("{"), P("}")>>
                ELSE <<P("{")>> \o inner \o NewLine(depth) \o <<P("}")>>
      [] OTHER -> StringifyValue(v)

----------------------------------------------------------------------------
(* Bounds of the model *)

\* pipeline calls one client makes
MaxRequests == 2

----------------------------------------------------------------------------
(* Errors (utils/errors.js) and the plain Error *)

Error(message) == [kind |-> "Error", message |-> message]

AuthenticationError(message) == [kind |-> "AuthenticationError", message |-> message]

RateLimitError(message, retryAfterSeconds) ==
    [kind |-> "RateLimitError", message |-> message,
     retryAfterSeconds |-> retryAfterSeconds]

DatabricksApiError(message, httpStatus, code) ==
    [kind |-> "ApiError", message |-> message, httpStatus |-> httpStatus,
     code |-> code]

\* what fetch() rejects with when no response arrives
TransportError == [kind |-> "TypeError", message |-> Str(<<"fetch", "failed">>)]

\* what response.text() rejects with when the body stream breaks
BodyReadError == [kind |-> "TypeError", message |-> Str(<<"terminated">>)]

Return(v) == [t |-> "return", value |-> v]

Throw(e) == [t |-> "throw", error |-> e]

----------------------------------------------------------------------------
(* Credential resolver *)

\* header names are spelled one character to a chunk: Headers compares them
\* without regard to case
HostHeader ==
    <<"X", "-", "D", "a", "t", "a", "b", "r", "i", "c", "k", "s", "-", "H",
      "o", "s", "t">>

TokenHeader ==
    <<"X", "-", "D", "a", "t", "a", "b", "r", "i", "c", "k", "s", "-", "T",
      "o", "k", "e", "n">>

WarehouseHeader ==
    <<"X", "-", "D", "a", "t", "a", "b", "r", "i", "c", "k", "s", "-", "W",
      "a", "r", "e", "h", "o", "u", "s", "e", "-", "I", "d">>

ContentTypeHeader ==
    <<"C", "o", "n", "t", "e", "n", "t", "-", "T", "y", "p", "e">>

RetryAfterHeaderName ==
    <<"R", "e", "t", "r", "y", "-", "A", "f", "t", "e", "r">>

\* a header name as Headers keeps it: its ASCII letters in lower case
ByteLowerCase(name) ==
    LET LowerCase(c) ==
            CASE c = "A" -> "a"
              [] c = "B" -> "b"
              [] c = "C" -> "c"
              [] c = "D" -> "d"
              [] c = "E" -> "e"
              [] c = "F" -> "f"
              [] c = "G" -> "g"
              [] c = "H" -> "h"
              [] c = "I" -> "i"
              [] c = "J" -> "j"
              [] c = "K" -> "k"
              [] c = "L" -> "l"
              [] c = "M" -> "m"
              [] c = "N" -> "n"
              [] c = "O" -> "o"
              [] c = "P" -> "p"
              [] c = "Q" -> "q"
              [] c = "R" -> "r"
              [] c = "S" -> "s"
              [] c = "T" -> "t"
              [] c = "U" -> "u"
              [] c = "V" -> "v"
              [] c = "W" -> "w"
              [] c = "X" -> "x"
              [] c = "Y" -> "y"
              [] c = "Z" -> "z"
              [] OTHER -> c
    IN  [i \in DOMAIN name |-> LowerCase(name[i])]

\* HTTP white space: what Headers strips from both ends of a value
HttpWhitespace == {" ", "\t", "\n", "\r"}

RECURSIVE TrimStart(_)
TrimStart(s) ==
    IF s # <<>> /\ Head(s) \in HttpWhitespace THEN TrimStart(Tail(s)) ELSE s

RECURSIVE TrimEnd(_)
TrimEnd(s) ==
    IF s # <<>> /\ s[Len(s)] \in HttpWhitespace
    THEN TrimEnd(SubSeq(s, 1, Len(s) - 1))
    ELSE s

\* the values of the headers of one name, in order, joined with ", "
RECURSIVE CombinedValue(_)
CombinedValue(hs) ==
    IF Len(hs) = 1 THEN TrimEnd(TrimStart(Head(hs).v.s))
    ELSE TrimEnd(TrimStart(Head(hs).v.s)) \o <<",", " ">> \o CombinedValue(Tail(hs))

MissingHostMessage ==
    Str(<<"Missing", "X-Databricks-Host", "header.", "Provide", "your",
          "Databricks", "workspace", "URL.">>)

MissingTokenMessage ==
    Str(<<"Missing", "X-Databricks-Token", "header.", "Provide", "your",
          "Databricks", "personal", "access", "token.">>)

\* headers.get(name) on the header lines of a message: the name is matched
\* without regard to case, each value is trimmed, the values of repeated
\* headers are joined; null when no header has the name
HeadersGet(headers, name) ==
    LET Named(h) == ByteLowerCase(h.k) = ByteLowerCase(name)
        hs == SelectSeq(headers, Named)
    IN  IF hs = <<>> THEN Null ELSE Str(CombinedValue(hs))

parseTenantCredentials(request) ==
    [host |-> Or(HeadersGet(request.headers, HostHeader), Str(<<>>)),
     token |-> Or(HeadersGet(request.headers, TokenHeader), Str(<<>>)),
     warehouseId |-> Or(HeadersGet(request.headers, WarehouseHeader), Undefined)]

\* the token is checked before the host
validateCredentials_TokenFirst(credentials) ==
    IF ~Truthy(credentials.token) THEN Throw(Error(MissingTokenMessage))
    ELSE IF ~Truthy(credentials.host) THEN Throw(Error(MissingHostMessage))
    ELSE Return(Undefined)

\* the token is not checked
validateCredentials_HostOnly(credentials) ==
    IF ~Truthy(credentials.host) THEN Throw(Error(MissingHostMessage))
    ELSE Return(Undefined)

validateCredentials(credentials) ==
    IF ~Truthy(credentials.host) THEN Throw(Error(MissingHostMessage))
    ELSE IF ~Truthy(credentials.token) THEN Throw(Error(MissingTokenMessage))
    ELSE Return(Undefined)

----------------------------------------------------------------------------
(* The worker's fetch handler *)

SERVER_NAME == Str(<<"primrose-mcp-databricks">>)

SERVER_VERSION == Str(<<"1.0.0">>)

JsonContentType == <<Member(ContentTypeHeader, Str(<<"application/json">>))>>

\* new Response(body, { status, headers }) with a string for a body: header
\* names are kept in lower case, and the content type is plain text when
\* none is given
Response(body, status, headers) ==
    LET given == [i \in DOMAIN headers |->
                     Member(ByteLowerCase(headers[i].k), headers[i].v)]
    IN  [by |-> "worker", status |-> status,
         headers |->
            IF \E i \in DOMAIN given : given[i].k = ByteLowerCase(ContentTypeHeader)
            THEN given
            ELSE Append(given, Member(ByteLowerCase(ContentTypeHeader),
                                      Str(<<"text/plain;charset=UTF-8">>))),
         body |-> body]

\* the promise of createMcpHandler(server)(request, env, ctx)
McpHandlerResponse == [by |-> "mcpHandler"]

NoResponse == [by |-> "nobody"]

\* the body lists the host header only
UnauthorizedResponse_HostOnly(error) ==
    Response(JSONStringify(Obj(<<
                 Member(<<"error">>, Str(<<"Unauthorized">>)),
                 Member(<<"message">>, error.message),
                 Member(<<"required_headers">>,
                        Obj(<<Member(HostHeader,
                                     Str(<<"Your", "Databricks", "workspace", "URL">>))>>))>>)),
             401, JsonContentType)

UnauthorizedResponse(error) ==
    Response(JSONStringify(Obj(<<
                 Member(<<"error">>, Str(<<"Unauthorized">>)),
                 Member(<<"message">>, error.message),
                 Member(<<"required_headers">>,
                        Obj(<<Member(HostHeader,
                                     Str(<<"Your", "Databricks", "workspace", "URL">>)),
                              Member(TokenHeader,
                                     Str(<<"Your", "personal", "access", "token">>))>>))>>)),
             401, JsonContentType)

HealthResponse ==
    Response(JSONStringify(Obj(<<
                 Member(<<"status">>, Str(<<"ok">>)),
                 Member(<<"server">>, SERVER_NAME)>>)),
             200, JsonContentType)

SseResponse ==
    Response(<<W("SSE endpoint requires Durable Objects. Enable in wrangler.jsonc.")>>,
             501, <<>>)

\* the default route: the server's description of itself, with its static
\* list of tool names by group
DefaultResponse ==
    Response(JSONStringify(Obj(<<
                 Member(<<"name">>, SERVER_NAME),
                 Member(<<"version">>, SERVER_VERSION),
                 Member(<<"description">>,
                        Str(<<"Multi-tenant", "Databricks", "MCP", "Server">>)),
                 Member(<<"endpoints">>, Obj(<<
                     Member(<<"mcp">>,
                            Str(<<"/mcp", "(POST)", "-", "Streamable", "HTTP", "MCP", "endpoint">>)),
                     Member(<<"health">>, Str(<<"/health", "-", "Health", "check">>))>>)),
                 Member(<<"authentication">>, Obj(<<
                     Member(<<"description">>,
                            Str(<<"Pass", "Databricks", "credentials", "via", "request", "headers">>)),
                     Member(<<"required_headers">>, Obj(<<
                         Member(HostHeader,
                                Str(<<"Databricks", "workspace", "URL", "(e.g.,", "https://adb-xxx.azuredatabricks.net)">>)),
                         Member(TokenHeader, Str(<<"Personal", "access", "token">>))>>)),
                     Member(<<"optional_headers">>, Obj(<<
                         Member(WarehouseHeader,
                                Str(<<"Default", "SQL", "warehouse", "ID", "for", "SQL", "operations">>))>>))>>)),
                 Member(<<"tools">>, Obj(<<
            Member(<<"sql">>, Arr(<<
                Str(<<"databricks_execute_sql">>),
                Str(<<"databricks_get_sql_status">>),
                Str(<<"databricks_get_sql_result_chunk">>),
                Str(<<"databricks_cancel_sql">>),
                Str(<<"databricks_list_warehouses">>),
                Str(<<"databricks_get_warehouse">>),
                Str(<<"databricks_start_warehouse">>),
                Str(<<"databricks_stop_warehouse">>)>>)),
            Member(<<"jobs">>, Arr(<<
                Str(<<"databricks_list_jobs">>),
                Str(<<"databricks_get_job">>),
                Str(<<"databricks_create_job">>),
                Str(<<"databricks_update_job">>),
                Str(<<"databricks_delete_job">>),
                Str(<<"databricks_run_job">>),
                Str(<<"databricks_list_runs">>),
                Str(<<"databricks_get_run">>),
                Str(<<"databricks_get_run_output">>),
                Str(<<"databricks_cancel_run">>),
                Str(<<"databricks_cancel_all_runs">>)>>)),
            Member(<<"clusters">>, Arr(<<
                Str(<<"databricks_list_clusters">>),
                Str(<<"databricks_get_cluster">>),
                Str(<<"databricks_create_cluster">>),
                Str(<<"databricks_start_cluster">>),
                Str(<<"databricks_restart_cluster">>),
                Str(<<"databricks_terminate_cluster">>),
                Str(<<"databricks_delete_cluster">>),
                Str(<<"databricks_list_cluster_events">>),
                Str(<<"databricks_pin_cluster">>),
                Str(<<"databricks_unpin_cluster">>)>>)),
            Member(<<"workspace">>, Arr(<<
                Str(<<"databricks_list_workspace">>),
                Str(<<"databricks_get_workspace_status">>),
                Str(<<"databricks_mkdirs">>),
                Str(<<"databricks_delete_workspace">>),
                Str(<<"databricks_import_notebook">>),
                Str(<<"databricks_export_notebook">>)>>)),
            Member(<<"dbfs">>, Arr(<<
                Str(<<"databricks_list_dbfs">>),
                Str(<<"databricks_get_dbfs_status">>),
                Str(<<"databricks_mkdirs_dbfs">>),
                Str(<<"databricks_delete_dbfs">>),
                Str(<<"databricks_read_dbfs">>),
                Str(<<"databricks_put_dbfs">>),
                Str(<<"databricks_move_dbfs">>)>>)),
            Member(<<"unity_catalog">>, Arr(<<
                Str(<<"databricks_list_catalogs">>),
                Str(<<"databricks_get_catalog">>),
                Str(<<"databricks_create_catalog">>),
                Str(<<"databricks_delete_catalog">>),
                Str(<<"databricks_list_schemas">>),
                Str(<<"databricks_get_schema">>),
                Str(<<"databricks_create_schema">>),
                Str(<<"databricks_delete_schema">>),
                Str(<<"databricks_list_tables">>),
                Str(<<"databricks_get_table">>),
                Str(<<"databricks_delete_table">>),
                Str(<<"databricks_list_volumes">>),
                Str(<<"databricks_get_volume">>),
                Str(<<"databricks_create_volume">>),
                Str(<<"databricks_delete_volume">>),
                Str(<<"databricks_list_functions">>),
                Str(<<"databricks_get_function">>)>>)),
            Member(<<"mlflow">>, Arr(<<
                Str(<<"databricks_list_experiments">>),
                Str(<<"databricks_get_experiment">>),
                Str(<<"databricks_get_experiment_by_name">>),
                Str(<<"databricks_create_experiment">>),
                Str(<<"databricks_delete_experiment">>),
                Str(<<"databricks_restore_experiment">>),
                Str(<<"databricks_search_runs">>),
                Str(<<"databricks_create_run">>),
                Str(<<"databricks_update_run">>),
                Str(<<"databricks_delete_run">>),
                Str(<<"databricks_log_metric">>),
                Str(<<"databricks_log_param">>),
                Str(<<"databricks_set_tag">>),
                Str(<<"databricks_list_models">>),
                Str(<<"databricks_get_model">>),
                Str(<<"databricks_create_model">>),
                Str(<<"databricks_delete_model">>),
                Str(<<"databricks_list_model_versions">>),
                Str(<<"databricks_get_model_version">>),
                Str(<<"databricks_delete_model_version">>)>>)),
            Member(<<"secrets">>, Arr(<<
                Str(<<"databricks_list_secret_scopes">>),
                Str(<<"databricks_create_secret_scope">>),
                Str(<<"databricks_delete_secret_scope">>),
                Str(<<"databricks_list_secrets">>),
                Str(<<"databricks_put_secret">>),
                Str(<<"databricks_delete_secret">>),
                Str(<<"databricks_list_secret_acls">>),
                Str(<<"databricks_get_secret_acl">>),
                Str(<<"databricks_put_secret_acl">>),
                Str(<<"databricks_delete_secret_acl">>)>>)),
            Member(<<"repos">>, Arr(<<
                Str(<<"databricks_list_repos">>),
                Str(<<"databricks_get_repo">>),
                Str(<<"databricks_create_repo">>),
                Str(<<"databricks_update_repo">>),
                Str(<<"databricks_delete_repo">>),
                Str(<<"databricks_list_git_credentials">>),
                Str(<<"databricks_create_git_credential">>),
                Str(<<"databricks_delete_git_credential">>)>>)),
            Member(<<"pipelines">>, Arr(<<
                Str(<<"databricks_list_pipelines">>),
                Str(<<"databricks_get_pipeline">>),
                Str(<<"databricks_create_pipeline">>),
                Str(<<"databricks_update_pipeline">>),
                Str(<<"databricks_delete_pipeline">>),
                Str(<<"databricks_start_pipeline">>),
                Str(<<"databricks_stop_pipeline">>)>>)),
            Member(<<"instance_pools">>, Arr(<<
                Str(<<"databricks_list_instance_pools">>),
                Str(<<"databricks_get_instance_pool">>),
                Str(<<"databricks_create_instance_pool">>),
                Str(<<"databricks_edit_instance_pool">>),
                Str(<<"databricks_delete_instance_pool">>)>>)),
            Member(<<"tokens">>, Arr(<<
                Str(<<"databricks_list_tokens">>),
                Str(<<"databricks_create_token">>),
                Str(<<"databricks_revoke_token">>)>>)),
            Member(<<"connection">>, Arr(<<
                Str(<<"databricks_test_connection">>)>>))>>))>>)),
             200, JsonContentType)

----------------------------------------------------------------------------
(* DatabricksClientImpl *)

NoClient == [made |-> FALSE]

\* the host is kept as given
StripTrailingSlash_Keep(host) == host

\* host.replace(/\/$/, ''): one slash at the end is dropped
StripTrailingSlash(host) ==
    IF host.s # <<>> /\ host.s[Len(host.s)] = "/"
    THEN Str(SubSeq(host.s, 1, Len(host.s) - 1))
    ELSE host

\* constructor; createDatabricksClient(credentials) is new DatabricksClientImpl
DatabricksClientImpl(credentials) ==
    [made |-> TRUE, credentials |-> credentials,
     baseUrl |-> StripTrailingSlash(credentials.host)]

createDatabricksClient(credentials) == DatabricksClientImpl(credentials)

NoCredentialsMessage ==
    Str(<<"No", "credentials", "provided.", "Include", "X-Databricks-Token",
          "header.">>)

AuthFailedMessage ==
    Str(<<"Authentication", "failed.", "Check", "your", "Databricks",
          "personal", "access", "token.">>)

RateLimitMessage == Str(<<"Rate", "limit", "exceeded">>)

DefaultRetryAfter == 60

\* the empty token is not refused
getAuthHeaders_Unchecked(client) ==
    Return(Obj(<<
        Member(<<"Authorization">>, Str(<<"Bearer">> \o client.credentials.token.s)),
        Member(<<"Content-Type">>, Str(<<"application/json">>))>>))

\* the content type is left out
getAuthHeaders_NoContentType(client) ==
    IF ~Truthy(client.credentials.token)
    THEN Throw(AuthenticationError(NoCredentialsMessage))
    ELSE Return(Obj(<<
             Member(<<"Authorization">>,
                    Str(<<"Bearer">> \o client.credentials.token.s))>>))

getAuthHeaders(client) ==
    IF ~Truthy(client.credentials.token)
    THEN Throw(AuthenticationError(NoCredentialsMessage))
    ELSE Return(Obj(<<
             Member(<<"Authorization">>,
                    Str(<<"Bearer">> \o client.credentials.token.s)),
             Member(<<"Content-Type">>, Str(<<"application/json">>))>>))

\* { ...a, ...b } on member lists
RECURSIVE Spread(_, _)
Spread(a, b) == IF b = <<>> THEN a ELSE Spread(Put(a, Head(b).k, Head(b).v), Tail(b))

\* the token is also put in the query of the URL
RequestSend_TokenInUrl(client, endpoint, options) ==
    LET url == Str(client.baseUrl.s \o endpoint.s \o <<"?token=">>
                   \o client.credentials.token.s)
        auth == getAuthHeaders(client)
    IN  IF auth.t = "throw" THEN auth
        ELSE Return([url |-> url,
                     method |-> options.method,
                     headers |-> Spread(auth.value.m,
                                        Or(options.headers, Obj(<<>>)).m),
                     body |-> options.body])

\* request(), up to the await of fetch(url, init): the error it throws before
\* anything is sent, or the HTTP request handed to the transport
RequestSend(client, endpoint, options) ==
    LET url == Str(client.baseUrl.s \o endpoint.s)
        auth == getAuthHeaders(client)
    IN  IF auth.t = "throw" THEN auth
        ELSE Return([url |-> url,
                     method |-> options.method,
                     headers |-> Spread(auth.value.m,
                                        Or(options.headers, Obj(<<>>)).m),
                     body |-> options.body])

ResponseOk(response) == response.status >= 200 /\ response.status <= 299

\* the body of a response whose stream broke while it was read: no text
BrokenBody == <<[k |-> "broken", s |-> <<>>, n |-> 0]>>

\* `API error: ${response.status}`
ApiErrorDefaultMessage(status) == Str(<<"API", "error:", ToString(status)>>)

\* `error` is preferred to `message`
ApiErrorOf_ErrorFirst(response) ==
    LET default == ApiErrorDefaultMessage(response.status)
        parsed == JSONParse(response.body)
        usable == parsed.ok /\ parsed.value.t # "null"
        errorJson == parsed.value
    IN  DatabricksApiError(
            IF usable
            THEN Or(Get(errorJson, <<"error">>),
                    Or(Get(errorJson, <<"message">>), default))
            ELSE default,
            response.status,
            IF usable THEN Get(errorJson, <<"error_code">>) ELSE Undefined)

\* the non-2xx branch: the body text is read and searched for a message
ApiErrorOf(response) ==
    LET default == ApiErrorDefaultMessage(response.status)
        parsed == JSONParse(response.body)
        \* reading a property of null throws inside the try block
        usable == parsed.ok /\ parsed.value.t # "null"
        errorJson == parsed.value
    IN  DatabricksApiError(
            IF usable
            THEN Or(Get(errorJson, <<"message">>),
                    Or(Get(errorJson, <<"error">>), default))
            ELSE default,
            response.status,
            IF usable THEN Get(errorJson, <<"error_code">>) ELSE Undefined)

\* the Retry-After header is not read
RetryAfterSeconds_Ignored(response) == Num(DefaultRetryAfter)

\* status 429: Retry-After, parsed when it is a non-empty string, else 60
RetryAfterSeconds(response) ==
    LET retryAfter == HeadersGet(response.headers, RetryAfterHeaderName)
    IN  IF Truthy(retryAfter) THEN ParseInt(retryAfter.s) ELSE Num(DefaultRetryAfter)

RateLimited(response) ==
    [outcome |-> Throw(RateLimitError(RateLimitMessage, RetryAfterSeconds(response))),
     bodyRead |-> FALSE]

\* the remote body's message is forwarded
AuthFailed_ForwardsBody(response) ==
    [outcome |-> Throw(AuthenticationError(ApiErrorOf(response).message)),
     bodyRead |-> TRUE]

\* status 401 or 403
AuthFailed(response) ==
    [outcome |-> Throw(AuthenticationError(AuthFailedMessage)), bodyRead |-> FALSE]

\* JSON.parse outside a try block
ApiFailed_NoCatch(response) ==
    [outcome |-> IF response.body = BrokenBody THEN Throw(BodyReadError)
                 ELSE IF JSONParse(response.body).ok THEN Throw(ApiErrorOf(response))
                 ELSE Throw(SyntaxError),
     bodyRead |-> TRUE]

\* any other status outside 200..299: response.text() is awaited outside the
\* try block, and its rejection leaves request()
ApiFailed(response) ==
    [outcome |-> IF response.body = BrokenBody THEN Throw(BodyReadError)
                 ELSE Throw(ApiErrorOf(response)),
     bodyRead |-> TRUE]

\* status 204
NoContent(response) == [outcome |-> Return(Undefined), bodyRead |-> FALSE]

\* the empty text is parsed like any other
Decoded_NoEmptyCheck(response) ==
    LET parsed == JSONParse(response.body)
    IN  [outcome |-> IF response.body = BrokenBody THEN Throw(BodyReadError)
                     ELSE IF parsed.ok THEN Return(parsed.value)
                     ELSE Throw(SyntaxError),
         bodyRead |-> TRUE]

\* a text that does not parse gives undefined
Decoded_Swallow(response) ==
    IF response.body = BrokenBody
    THEN [outcome |-> Throw(BodyReadError), bodyRead |-> TRUE]
    ELSE IF ~Truthy(Text(response.body))
    THEN [outcome |-> Return(Undefined), bodyRead |-> TRUE]
    ELSE LET parsed == JSONParse(response.body)
         IN  [outcome |-> IF parsed.ok THEN Return(parsed.value)
                          ELSE Return(Undefined),
              bodyRead |-> TRUE]

\* the remaining 2xx: the rejection of response.text() leaves request();
\* empty text is undefined, anything else is parsed
Decoded(response) ==
    IF response.body = BrokenBody
    THEN [outcome |-> Throw(BodyReadError), bodyRead |-> TRUE]
    ELSE IF ~Truthy(Text(response.body))
    THEN [outcome |-> Return(Undefined), bodyRead |-> TRUE]
    ELSE LET parsed == JSONParse(response.body)
         IN  [outcome |-> IF parsed.ok THEN Return(parsed.value)
                          ELSE Throw(SyntaxError),
              bodyRead |-> TRUE]

\* no branch for 204
RequestReceive_No204(response) ==
    IF response.status = 429 THEN RateLimited(response)
    ELSE IF response.status = 401 \/ response.status = 403 THEN AuthFailed(response)
    ELSE IF ~ResponseOk(response) THEN ApiFailed(response)
    ELSE Decoded(response)

\* the test for a non-2xx status comes first
RequestReceive_OkFirst(response) ==
    IF ~ResponseOk(response) THEN ApiFailed(response)
    ELSE IF response.status = 429 THEN RateLimited(response)
    ELSE IF response.status = 401 \/ response.status = 403 THEN AuthFailed(response)
    ELSE IF response.status = 204 THEN NoContent(response)
    ELSE Decoded(response)

\* request(), from the response on: whether response.text() is called and
\* awaited, and the outcome of the call
RequestReceive(response) ==
    IF response.status = 429 THEN RateLimited(response)
    ELSE IF response.status = 401 \/ response.status = 403 THEN AuthFailed(response)
    ELSE IF ~ResponseOk(response) THEN ApiFailed(response)
    ELSE IF response.status = 204 THEN NoContent(response)
    ELSE Decoded(response)

\* get, post, put, patch and delete: the options they hand to request()
WrapperOptions(method, body) ==
    IF method = "GET"
    THEN [method |-> "GET", body |-> Undefined, headers |-> Undefined]
    ELSE [method |-> method,
          body |-> IF Truthy(body) THEN Text(JSONStringify(body)) ELSE Undefined,
          headers |-> Undefined]

----------------------------------------------------------------------------
(* Inputs *)

\* header values of an inbound call: null is an absent header
TokenValues == {Null, Str(<<>>), Str(<<"t1">>), Str(<<"t2">>)}

WarehouseValues == {Null, Str(<<"w1">>)}

Header(name, value) == IF value = Null THEN <<>> ELSE <<Member(name, value)>>

Inbound(pathname, method, host, token, warehouse) ==
    [pathname |-> pathname, method |-> method,
     headers |-> Header(HostHeader, host) \o Header(TokenHeader, token)
                 \o Header(WarehouseHeader, warehouse)]

InboundRequests ==
    {Inbound("/mcp", "POST", h, t, Null) :
        \* a host with no slash at its end, the same host with one, and a host
        \* with two
        h \in {Null, Str(<<>>), Str(<<"a">>), Str(<<"a", "/">>), Str(<<"b", "/", "/">>)},
        t \in TokenValues}
    \* with the warehouse header
    \cup {Inbound("/mcp", "POST", h, Str(<<"t1">>), w) :
            h \in {Null, Str(<<"a">>)}, w \in WarehouseValues}
    \cup {Inbound(p, "GET", Str(<<"a">>), t, Null) :
            p \in {"/health", "/mcp", "/sse", "/"}, t \in {Null, Str(<<"t1">>)}}
    \cup {Inbound("/health", "POST", Null, Null, Null)}
    \* names in lower case and a host with white space around it
    \cup {[pathname |-> "/mcp", method |-> "POST",
               headers |-> <<Member(ByteLowerCase(HostHeader), Str(<<" ", "a", " ">>)),
                             Member(ByteLowerCase(TokenHeader), Str(<<"t1">>))>>]}
    \* the host header twice
    \cup {[pathname |-> "/mcp", method |-> "POST",
               headers |-> <<Member(HostHeader, Str(<<"a">>)),
                             Member(HostHeader, Str(<<"b">>)),
                             Member(TokenHeader, Str(<<"t1">>))>>]}
    \* a host of white space only
    \cup {[pathname |-> "/mcp", method |-> "POST",
               headers |-> <<Member(HostHeader, Str(<<" ">>)),
                             Member(TokenHeader, Str(<<"t1">>))>>]}

Endpoints == {Str(<<"/", "api/2.0/clusters/list">>), Str(<<"/", "api/2.0/jobs/delete">>)}

Methods == {"GET", "POST", "PUT", "PATCH", "DELETE"}

\* no payload, null, an object without members, an object with one
Payloads ==
    {Undefined, Null, Obj(<<>>), Obj(<<Member(<<"cluster_id">>, Str(<<"c1">>))>>)}

\* what a facade hands to a wrapper: get(endpoint) takes no payload
Descriptor(endpoint, method, payload) ==
    [endpoint |-> endpoint, method |-> method,
     payload |-> IF method = "GET" THEN Undefined ELSE payload]

EmptyBody == <<>>

OopsBody == <<W("oops")>>

InternalFailureBody ==
    <<P("{"), S(<<"message">>), P(":"), S(<<"internal", "failure">>), P(","),
      S(<<"error_code">>), P(":"), S(<<"E1">>), P("}")>>

BothBody ==
    <<P("{"), S(<<"error">>), P(":"), S(<<"e">>), P(","),
      S(<<"message">>), P(":"), S(<<"m">>), P("}")>>

EmptyObjectBody == <<P("{"), P("}")>>

NullBody == <<W("null")>>

ItemsBody ==
    <<P("{"), S(<<"items">>), P(":"), P("["), N(1), P(","), N(2), P(","), N(3),
      P("]"), P("}")>>

TruncatedBody == <<P("{"), S(<<"message">>), P(":"), S(<<"cut">>)>>

TrailingBody == <<P("{"), P("}"), W("oops")>>

Bodies ==
    {EmptyBody, OopsBody, InternalFailureBody, BothBody, EmptyObjectBody,
     NullBody, ItemsBody, TruncatedBody, TrailingBody,
     <<P("{"), S(<<"error">>), P(":"), S(<<"bad", "request">>), P("}")>>,
     <<P("{"), S(<<"message">>), P(":"), S(<<>>), P(","),
           S(<<"error">>), P(":"), S(<<"fallback">>), P("}")>>,
     <<P("{"), S(<<"error_code">>), P(":"), S(<<"E2">>), P(","),
           S(<<"message">>), P(":"), S(<<>>), P("}")>>,
     <<P("["), N(1), P(","), N(2), P("]")>>,
     \* one space
     <<Sp(" ")>>,
     \* white space between the lexemes, and array indices among the keys
     <<P("{"), Sp("\n"), S(<<"message">>), P(":"), Sp(" "), S(<<"m">>), P(","),
           Sp(" "), S(<<"1">>), P(":"), N(2), P(","), S(<<"0">>), P(":"), N(1),
           Sp("\n"), P("}")>>}

HttpResponse(status, retryAfter, body) ==
    [status |-> status, headers |-> Header(RetryAfterHeaderName, retryAfter),
     body |-> body]

Responses ==
    \* Retry-After: absent, empty, integers, texts that are not, white space
    \* alone and in front of an integer, and an integer above 2^31 - 1
    {HttpResponse(429, r, b) :
        r \in {Null, Str(<<>>), Str(<<"3", "0">>), Str(<<"0">>), Str(<<"1", "2", "0">>),
               Str(<<"W", "e", "d", ",", " ", "2", "1">>), Str(<<"s", "o", "o", "n">>),
               Str(<<"7", "s">>), Str(<<" ">>), Str(<<"\f", "3", "0">>),
               Str(<<"2", "1", "4", "7", "4", "8", "3", "6", "4", "8">>)},
        b \in {EmptyBody, InternalFailureBody}}
    \cup {HttpResponse(st, Null, b) :
            st \in {401, 403}, b \in {EmptyBody, InternalFailureBody, OopsBody}}
    \cup {HttpResponse(st, Null, b) : st \in {400, 500}, b \in Bodies}
    \cup {HttpResponse(st, Null, b) : st \in {302, 404}, b \in {OopsBody, BothBody}}
    \cup {HttpResponse(503, Str(<<"3", "0">>), b) : b \in {OopsBody, BothBody}}
    \cup {HttpResponse(200, Null, b) : b \in Bodies}
    \cup {HttpResponse(201, Null, b) : b \in {EmptyBody, ItemsBody, TruncatedBody}}
    \cup {HttpResponse(204, Null, b) : b \in {EmptyBody, OopsBody, ItemsBody}}

----------------------------------------------------------------------------
(* State *)

VARIABLES
    pc,        \* per inbound call: "start", "responded", "importing", "ready",
               \* "awaiting", "reading"
    inbound,   \* the inbound request, once it has arrived
    reply,     \* what fetch() returned to the caller
    client,    \* the call's DatabricksClientImpl
    sent,      \* HTTP requests handed to the transport so far
    wire,      \* the last HTTP request handed to the transport
    calls,     \* completed calls of request()
    descriptor, \* endpoint, method and payload of the last call of request()
    response,  \* the last HTTP response
    bodyRead,  \* whether response.text() was called on it
    outcome,   \* the outcome of the last call of request()
    tool,      \* the last tools/call the call's server was given
    result,    \* what the client method called by the tool's handler settled with
    envelope   \* what the tool's handler returned

vars ==
    <<pc, inbound, reply, client, sent, wire, calls, descriptor, response,
      bodyRead, outcome, tool, result, envelope>>

toolVars == <<tool, result, envelope>>

NoWire == [url |-> Str(<<>>), method |-> "", headers |-> <<>>, body |-> Undefined]

NoHttpResponse == [status |-> 0, headers |-> <<>>, body |-> <<>>]

NoOutcome == [t |-> "none"]

NoTool == [name |-> "", args |-> Undefined, awaits |-> ""]

NoEnvelope == [t |-> "none", isError |-> FALSE, message |-> Undefined, data |-> Undefined]

CallIds == DOMAIN pc

InitFor(ids) ==
    /\ pc = [c \in ids |-> "start"]
    /\ inbound = [c \in ids |-> [pathname |-> "", method |-> "", headers |-> <<>>]]
    /\ reply = [c \in ids |-> NoResponse]
    /\ client = [c \in ids |-> NoClient]
    /\ sent = [c \in ids |-> 0]
    /\ wire = [c \in ids |-> NoWire]
    /\ calls = [c \in ids |-> 0]
    /\ descriptor =
         [c \in ids |-> [endpoint |-> Str(<<>>), method |-> "", payload |-> Undefined]]
    /\ response = [c \in ids |-> NoHttpResponse]
    /\ bodyRead = [c \in ids |-> FALSE]
    /\ outcome = [c \in ids |-> NoOutcome]
    /\ tool = [c \in ids |-> NoTool]
    /\ result = [c \in ids |-> NoOutcome]
    /\ envelope = [c \in ids |-> NoEnvelope]

Init == InitFor({1})

\* the client of the first call is kept and handed to every later call
Fetch_SharedClient(c, request) ==
    /\ pc[c] = "start"
    /\ inbound' = [inbound EXCEPT ![c] = request]
    /\ IF request.pathname = "/health"
       THEN /\ reply' = [reply EXCEPT ![c] = HealthResponse]
            /\ pc' = [pc EXCEPT ![c] = "responded"]
            /\ UNCHANGED client
       ELSE IF request.pathname = "/mcp" /\ request.method = "POST"
       THEN LET credentials == parseTenantCredentials(request)
                valid == validateCredentials(credentials)
            IN  IF valid.t = "throw"
                THEN /\ reply' = [reply EXCEPT ![c] = UnauthorizedResponse(valid.error)]
                     /\ pc' = [pc EXCEPT ![c] = "responded"]
                     /\ UNCHANGED client
                ELSE /\ client' = [client EXCEPT ![c] =
                            IF \E d \in CallIds : client[d].made
                            THEN client[CHOOSE d \in CallIds : client[d].made]
                            ELSE createDatabricksClient(credentials)]
                     /\ pc' = [pc EXCEPT ![c] = "importing"]
                     /\ UNCHANGED reply
       ELSE IF request.pathname = "/sse"
       THEN /\ reply' = [reply EXCEPT ![c] = SseResponse]
            /\ pc' = [pc EXCEPT ![c] = "responded"]
            /\ UNCHANGED client
       ELSE /\ reply' = [reply EXCEPT ![c] = DefaultResponse]
            /\ pc' = [pc EXCEPT ![c] = "responded"]
            /\ UNCHANGED client
    /\ UNCHANGED <<sent, wire, calls, descriptor, response, bodyRead, outcome>>

\* fetch(request, env, ctx), to its return or, on POST /mcp with credentials,
\* to its await of import('agents/mcp'): the server and its client are made,
\* the reply is not
Fetch(c, request) ==
    /\ pc[c] = "start"
    /\ inbound' = [inbound EXCEPT ![c] = request]
    /\ IF request.pathname = "/health"
       THEN /\ reply' = [reply EXCEPT ![c] = HealthResponse]
            /\ pc' = [pc EXCEPT ![c] = "responded"]
            /\ UNCHANGED client
       ELSE IF request.pathname = "/mcp" /\ request.method = "POST"
       THEN LET credentials == parseTenantCredentials(request)
                valid == validateCredentials(credentials)
            IN  IF valid.t = "throw"
                THEN /\ reply' = [reply EXCEPT ![c] = UnauthorizedResponse(valid.error)]
                     /\ pc' = [pc EXCEPT ![c] = "responded"]
                     /\ UNCHANGED client
                ELSE /\ client' = [client EXCEPT ![c] = createDatabricksClient(credentials)]
                     /\ pc' = [pc EXCEPT ![c] = "importing"]
                     /\ UNCHANGED reply
       ELSE IF request.pathname = "/sse"
       THEN /\ reply' = [reply EXCEPT ![c] = SseResponse]
            /\ pc' = [pc EXCEPT ![c] = "responded"]
            /\ UNCHANGED client
       ELSE /\ reply' = [reply EXCEPT ![c] = DefaultResponse]
            /\ pc' = [pc EXCEPT ![c] = "responded"]
            /\ UNCHANGED client
    /\ UNCHANGED <<sent, wire, calls, descriptor, response, bodyRead, outcome>>

\* fetch() after the import has settled: createMcpHandler(server), and the
\* promise of handler(request, env, ctx) is returned
Handle(c) ==
    /\ pc[c] = "importing"
    /\ reply' = [reply EXCEPT ![c] = McpHandlerResponse]
    /\ pc' = [pc EXCEPT ![c] = "ready"]
    /\ UNCHANGED <<inbound, client, sent, wire, calls, descriptor, response,
                   bodyRead, outcome>>

\* createDatabricksClient(credentials) called without the fetch handler
CreateClient(c, credentials) ==
    /\ pc[c] = "start"
    /\ client' = [client EXCEPT ![c] = createDatabricksClient(credentials)]
    /\ pc' = [pc EXCEPT ![c] = "ready"]
    /\ UNCHANGED <<inbound, reply, sent, wire, calls, descriptor, response, bodyRead,
                   outcome>>

\* a wrapper calls request(): it throws before sending, or awaits fetch()
Request(c, endpoint, method, payload) ==
    /\ pc[c] = "ready"
    /\ calls[c] < MaxRequests
    /\ descriptor' = [descriptor EXCEPT ![c] = Descriptor(endpoint, method, payload)]
    /\ LET r == RequestSend(client[c], endpoint, WrapperOptions(method, payload))
       IN  IF r.t = "throw"
           THEN /\ outcome' = [outcome EXCEPT ![c] = r]
                /\ calls' = [calls EXCEPT ![c] = @ + 1]
                /\ response' = [response EXCEPT ![c] = NoHttpResponse]
                /\ bodyRead' = [bodyRead EXCEPT ![c] = FALSE]
                /\ UNCHANGED <<pc, sent, wire>>
           ELSE /\ wire' = [wire EXCEPT ![c] = r.value]
                /\ sent' = [sent EXCEPT ![c] = @ + 1]
                /\ pc' = [pc EXCEPT ![c] = "awaiting"]
                /\ outcome' = [outcome EXCEPT ![c] = NoOutcome]
                /\ response' = [response EXCEPT ![c] = NoHttpResponse]
                /\ bodyRead' = [bodyRead EXCEPT ![c] = FALSE]
                /\ UNCHANGED calls
    /\ UNCHANGED <<inbound, reply, client>>

\* a 429 is answered by sending the request again
Receive_RetryOn429(c, resp) ==
    /\ pc[c] = "awaiting"
    /\ IF resp.status = 429
       THEN /\ sent' = [sent EXCEPT ![c] = @ + 1]
            /\ UNCHANGED <<pc, calls, response, bodyRead, outcome>>
       ELSE /\ response' = [response EXCEPT ![c] = resp]
            /\ LET r == RequestReceive(resp)
               IN  IF r.bodyRead
                   THEN /\ bodyRead' = [bodyRead EXCEPT ![c] = TRUE]
                        /\ pc' = [pc EXCEPT ![c] = "reading"]
                        /\ UNCHANGED <<outcome, calls>>
                   ELSE /\ outcome' = [outcome EXCEPT ![c] = r.outcome]
                        /\ calls' = [calls EXCEPT ![c] = @ + 1]
                        /\ pc' = [pc EXCEPT ![c] = "ready"]
                        /\ UNCHANGED bodyRead
            /\ UNCHANGED sent
    /\ UNCHANGED <<inbound, reply, client, wire, descriptor>>

\* once a call has been rate limited, later calls fail the same way
Receive_Sticky(c, resp) ==
    /\ pc[c] = "awaiting"
    /\ response' = [response EXCEPT ![c] = resp]
    /\ LET r == IF calls[c] > 0 THEN RateLimited(resp) ELSE RequestReceive(resp)
       IN  IF r.bodyRead
           THEN /\ bodyRead' = [bodyRead EXCEPT ![c] = TRUE]
                /\ pc' = [pc EXCEPT ![c] = "reading"]
                /\ UNCHANGED <<outcome, calls>>
           ELSE /\ outcome' = [outcome EXCEPT ![c] = r.outcome]
                /\ calls' = [calls EXCEPT ![c] = @ + 1]
                /\ pc' = [pc EXCEPT ![c] = "ready"]
                /\ UNCHANGED bodyRead
    /\ UNCHANGED <<inbound, reply, client, sent, wire, descriptor>>

\* fetch() resolves with a response: request() runs to its end when the
\* status is 429, 401, 403 or 204, and to its await of response.text()
\* otherwise
Receive(c, resp) ==
    /\ pc[c] = "awaiting"
    /\ response' = [response EXCEPT ![c] = resp]
    /\ LET r == RequestReceive(resp)
       IN  IF r.bodyRead
           THEN /\ bodyRead' = [bodyRead EXCEPT ![c] = TRUE]
                /\ pc' = [pc EXCEPT ![c] = "reading"]
                /\ UNCHANGED <<outcome, calls>>
           ELSE /\ outcome' = [outcome EXCEPT ![c] = r.outcome]
                /\ calls' = [calls EXCEPT ![c] = @ + 1]
                /\ pc' = [pc EXCEPT ![c] = "ready"]
                /\ UNCHANGED bodyRead
    /\ UNCHANGED <<inbound, reply, client, sent, wire, descriptor>>

\* response.text() resolves with the body text and request() runs to its end
ReadBody(c) ==
    /\ pc[c] = "reading"
    /\ outcome' = [outcome EXCEPT ![c] = RequestReceive(response[c]).outcome]
    /\ calls' = [calls EXCEPT ![c] = @ + 1]
    /\ pc' = [pc EXCEPT ![c] = "ready"]
    /\ UNCHANGED <<inbound, reply, client, sent, wire, descriptor, response, bodyRead>>

\* response.text() rejects: the body stream breaks, no text arrives and the
\* rejection leaves request()
BodyFailure(c) ==
    /\ pc[c] = "reading"
    /\ response' = [response EXCEPT ![c].body = BrokenBody]
    /\ outcome' = [outcome EXCEPT ![c] = RequestReceive(response'[c]).outcome]
    /\ calls' = [calls EXCEPT ![c] = @ + 1]
    /\ pc' = [pc EXCEPT ![c] = "ready"]
    /\ UNCHANGED <<inbound, reply, client, sent, wire, descriptor, bodyRead>>

\* fetch() rejects: no response arrives and the rejection leaves request()
TransportFailure(c) ==
    /\ pc[c] = "awaiting"
    /\ outcome' = [outcome EXCEPT ![c] = Throw(TransportError)]
    /\ response' = [response EXCEPT ![c] = NoHttpResponse]
    /\ bodyRead' = [bodyRead EXCEPT ![c] = FALSE]
    /\ calls' = [calls EXCEPT ![c] = @ + 1]
    /\ pc' = [pc EXCEPT ![c] = "ready"]
    /\ UNCHANGED <<inbound, reply, client, sent, wire, descriptor>>

\* the client's wrappers called with no tool around them
Next ==
    \/ \E c \in CallIds, request \in InboundRequests :
          Fetch(c, request) /\ UNCHANGED toolVars
    \/ \E c \in CallIds : Handle(c) /\ UNCHANGED toolVars
    \* credentials handed to createDatabricksClient by a caller that skipped
    \* validateCredentials
    \/ \E c \in CallIds,
          credentials \in
              {[host |-> h, token |-> t, warehouseId |-> Undefined] :
                  h \in {Str(<<"a">>), Str(<<"b", "/", "/">>)},
                  t \in {Str(<<>>), Str(<<"t1">>)}} :
          CreateClient(c, credentials) /\ UNCHANGED toolVars
    \/ \E c \in CallIds,
          d \in
              {Descriptor(endpoint, method, payload) :
                  endpoint \in Endpoints, method \in Methods, payload \in Payloads} :
          Request(c, d.endpoint, d.method, d.payload) /\ UNCHANGED toolVars
    \/ \E c \in CallIds, resp \in Responses : Receive(c, resp) /\ UNCHANGED toolVars
    \/ \E c \in CallIds : ReadBody(c) /\ UNCHANGED toolVars
    \/ \E c \in CallIds : BodyFailure(c) /\ UNCHANGED toolVars
    \/ \E c \in CallIds : TransportFailure(c) /\ UNCHANGED toolVars

Spec == Init /\ [][Next]_vars

----------------------------------------------------------------------------
(* Two inbound calls served at once by one instance *)

NextConcurrent ==
    \/ \E c \in CallIds,
          request \in
              {Inbound("/mcp", "POST", h, t, Null) :
                  h \in {Str(<<"a">>), Str(<<"b">>)}, t \in {Str(<<"t1">>), Str(<<"t2">>)}}
              \cup {Inbound("/mcp", "POST", Str(<<"a">>), Null, Null)} :
          Fetch(c, request) /\ UNCHANGED toolVars
    \/ \E c \in CallIds : Handle(c) /\ UNCHANGED toolVars
    \/ \E c \in CallIds,
          d \in
              {Descriptor(Str(<<"/", "api/2.0/clusters/list">>), "GET", Undefined),
               Descriptor(Str(<<"/", "api/2.0/jobs/delete">>), "POST",
                          Obj(<<Member(<<"job_id">>, Num(7))>>))} :
          Request(c, d.endpoint, d.method, d.payload) /\ UNCHANGED toolVars
    \/ \E c \in CallIds,
          resp \in
              {HttpResponse(200, Null, ItemsBody), HttpResponse(401, Null, EmptyBody),
               HttpResponse(429, Null, EmptyBody)} :
          Receive(c, resp) /\ UNCHANGED toolVars
    \/ \E c \in CallIds : ReadBody(c) /\ UNCHANGED toolVars
    \/ \E c \in CallIds : BodyFailure(c) /\ UNCHANGED toolVars
    \/ \E c \in CallIds : TransportFailure(c) /\ UNCHANGED toolVars

SpecConcurrent == InitFor({1, 2}) /\ [][NextConcurrent]_vars

----------------------------------------------------------------------------
(* Tools: the handlers createStatelessServer registers and the client
   methods they call *)

\* the names given to server.tool(...) by the twelve register functions and
\* by createStatelessServer itself
RegisteredTools ==
   {"databricks_cancel_all_runs", "databricks_cancel_run",
    "databricks_cancel_sql", "databricks_create_catalog",
    "databricks_create_cluster", "databricks_create_experiment",
    "databricks_create_git_credential", "databricks_create_instance_pool",
    "databricks_create_job", "databricks_create_model",
    "databricks_create_pipeline", "databricks_create_repo",
    "databricks_create_run", "databricks_create_schema",
    "databricks_create_secret_scope", "databricks_create_token",
    "databricks_create_volume", "databricks_delete_catalog",
    "databricks_delete_cluster", "databricks_delete_dbfs",
    "databricks_delete_experiment", "databricks_delete_git_credential",
    "databricks_delete_instance_pool", "databricks_delete_job",
    "databricks_delete_model", "databricks_delete_model_version",
    "databricks_delete_pipeline", "databricks_delete_repo",
    "databricks_delete_run", "databricks_delete_schema",
    "databricks_delete_secret", "databricks_delete_secret_acl",
    "databricks_delete_secret_scope", "databricks_delete_table",
    "databricks_delete_volume", "databricks_delete_workspace",
    "databricks_edit_instance_pool", "databricks_execute_sql",
    "databricks_export_notebook", "databricks_get_catalog",
    "databricks_get_cluster", "databricks_get_dbfs_status",
    "databricks_get_experiment", "databricks_get_experiment_by_name",
    "databricks_get_function", "databricks_get_instance_pool",
    "databricks_get_job", "databricks_get_model",
    "databricks_get_model_version", "databricks_get_pipeline",
    "databricks_get_repo", "databricks_get_run", "databricks_get_run_output",
    "databricks_get_schema", "databricks_get_secret_acl",
    "databricks_get_sql_result_chunk", "databricks_get_sql_status",
    "databricks_get_table", "databricks_get_volume",
    "databricks_get_warehouse", "databricks_get_workspace_status",
    "databricks_import_notebook", "databricks_list_catalogs",
    "databricks_list_cluster_events", "databricks_list_clusters",
    "databricks_list_dbfs", "databricks_list_experiments",
    "databricks_list_functions", "databricks_list_git_credentials",
    "databricks_list_instance_pools", "databricks_list_jobs",
    "databricks_list_model_versions", "databricks_list_models",
    "databricks_list_pipelines", "databricks_list_repos",
    "databricks_list_runs", "databricks_list_schemas",
    "databricks_list_secret_acls", "databricks_list_secret_scopes",
    "databricks_list_secrets", "databricks_list_tables",
    "databricks_list_tokens", "databricks_list_volumes",
    "databricks_list_warehouses", "databricks_list_workspace",
    "databricks_log_metric", "databricks_log_param", "databricks_mkdirs",
    "databricks_mkdirs_dbfs", "databricks_move_dbfs",
    "databricks_pin_cluster", "databricks_put_dbfs", "databricks_put_secret",
    "databricks_put_secret_acl", "databricks_read_dbfs",
    "databricks_restart_cluster", "databricks_restore_experiment",
    "databricks_revoke_token", "databricks_run_job",
    "databricks_search_runs", "databricks_set_tag",
    "databricks_start_cluster", "databricks_start_pipeline",
    "databricks_start_warehouse", "databricks_stop_pipeline",
    "databricks_stop_warehouse", "databricks_terminate_cluster",
    "databricks_test_connection", "databricks_unpin_cluster",
    "databricks_update_job", "databricks_update_pipeline",
    "databricks_update_repo", "databricks_update_run"}

\* the names listed under "Available Tools" in README.md
ReadmeTools ==
   {"databricks_cancel_run", "databricks_create_token",
    "databricks_dbfs_delete", "databricks_dbfs_list", "databricks_dbfs_read",
    "databricks_dbfs_write", "databricks_execute_sql",
    "databricks_export_notebook", "databricks_get_cluster",
    "databricks_get_instance_pool", "databricks_get_job",
    "databricks_get_model", "databricks_get_notebook",
    "databricks_get_pipeline", "databricks_get_repo", "databricks_get_run",
    "databricks_get_table", "databricks_get_warehouse",
    "databricks_import_notebook", "databricks_list_catalogs",
    "databricks_list_clusters", "databricks_list_experiments",
    "databricks_list_instance_pools", "databricks_list_jobs",
    "databricks_list_model_versions", "databricks_list_models",
    "databricks_list_pipelines", "databricks_list_repos",
    "databricks_list_runs", "databricks_list_schemas",
    "databricks_list_secret_scopes", "databricks_list_secrets",
    "databricks_list_tables", "databricks_list_tokens",
    "databricks_list_warehouses", "databricks_list_workspace",
    "databricks_put_secret", "databricks_restart_cluster",
    "databricks_run_job", "databricks_start_cluster",
    "databricks_start_pipeline", "databricks_stop_cluster",
    "databricks_update_repo"}

\* the envelope a tool call is answered with (utils/formatters.js)
Envelope(isError, message, data) ==
    [t |-> "envelope", isError |-> isError, message |-> message, data |-> data]

formatResponse(data) == Envelope(FALSE, Undefined, data)

formatSuccess(message, data) == Envelope(FALSE, message, data)

formatError(error) == Envelope(TRUE, error.message, Undefined)

\* the server's answer to a name no tool was registered under
ToolNotFound == Envelope(TRUE, Str(<<"Tool", "not found">>), Undefined)

\* the server's answer to arguments the tool's input shape refuses
InvalidArguments == Envelope(TRUE, Str(<<"Invalid", "arguments">>), Undefined)

\* the fields a tool's input shape declares without .optional() and without
\* .default(...)
RequiredArgs(name) ==
    CASE name \in {"databricks_cancel_all_runs", "databricks_delete_job",
                   "databricks_get_job", "databricks_run_job"} ->
            {<<"jobId">>}
      [] name \in {"databricks_cancel_run", "databricks_delete_run", "databricks_get_run",
                   "databricks_get_run_output"} ->
            {<<"runId">>}
      [] name \in {"databricks_cancel_sql", "databricks_get_sql_status"} ->
            {<<"statementId">>}
      [] name \in {"databricks_create_catalog", "databricks_create_experiment",
                   "databricks_create_model", "databricks_delete_catalog",
                   "databricks_delete_model", "databricks_get_catalog",
                   "databricks_get_model", "databricks_list_model_versions"} ->
            {<<"name">>}
      [] name = "databricks_create_cluster" ->
            {<<"clusterName">>, <<"sparkVersion">>, <<"nodeTypeId">>}
      [] name = "databricks_create_git_credential" ->
            {<<"provider">>, <<"username">>, <<"personalAccessToken">>}
      [] name = "databricks_create_instance_pool" ->
            {<<"instancePoolName">>, <<"nodeTypeId">>}
      [] name = "databricks_create_job" ->
            {<<"name">>, <<"tasks">>}
      [] name = "databricks_create_pipeline" ->
            {<<"name">>, <<"spec">>}
      [] name = "databricks_create_repo" ->
            {<<"url">>, <<"provider">>}
      [] name \in {"databricks_create_run", "databricks_delete_experiment",
                   "databricks_get_experiment", "databricks_restore_experiment"} ->
            {<<"experimentId">>}
      [] name = "databricks_create_schema" ->
            {<<"catalogName">>, <<"name">>}
      [] name \in {"databricks_create_secret_scope", "databricks_delete_secret_scope",
                   "databricks_list_secret_acls", "databricks_list_secrets"} ->
            {<<"scope">>}
      [] name = "databricks_create_volume" ->
            {<<"catalogName">>, <<"schemaName">>, <<"name">>, <<"volumeType">>}
      [] name \in {"databricks_delete_cluster", "databricks_get_cluster",
                   "databricks_list_cluster_events", "databricks_pin_cluster",
                   "databricks_restart_cluster", "databricks_start_cluster",
                   "databricks_terminate_cluster", "databricks_unpin_cluster"} ->
            {<<"clusterId">>}
      [] name \in {"databricks_delete_dbfs", "databricks_delete_workspace",
                   "databricks_export_notebook", "databricks_get_dbfs_status",
                   "databricks_get_workspace_status", "databricks_list_dbfs",
                   "databricks_list_workspace", "databricks_mkdirs",
                   "databricks_mkdirs_dbfs", "databricks_read_dbfs"} ->
            {<<"path">>}
      [] name = "databricks_delete_git_credential" ->
            {<<"credentialId">>}
      [] name \in {"databricks_delete_instance_pool", "databricks_get_instance_pool"} ->
            {<<"instancePoolId">>}
      [] name \in {"databricks_delete_model_version", "databricks_get_model_version"} ->
            {<<"name">>, <<"version">>}
      [] name \in {"databricks_delete_pipeline", "databricks_get_pipeline",
                   "databricks_start_pipeline", "databricks_stop_pipeline"} ->
            {<<"pipelineId">>}
      [] name \in {"databricks_delete_repo", "databricks_get_repo", "databricks_update_repo"} ->
            {<<"repoId">>}
      [] name \in {"databricks_delete_schema", "databricks_delete_table",
                   "databricks_delete_volume", "databricks_get_function",
                   "databricks_get_schema", "databricks_get_table",
                   "databricks_get_volume"} ->
            {<<"fullName">>}
      [] name = "databricks_delete_secret" ->
            {<<"scope">>, <<"key">>}
      [] name \in {"databricks_delete_secret_acl", "databricks_get_secret_acl"} ->
            {<<"scope">>, <<"principal">>}
      [] name = "databricks_edit_instance_pool" ->
            {<<"instancePoolId">>, <<"instancePoolName">>, <<"nodeTypeId">>}
      [] name = "databricks_execute_sql" ->
            {<<"warehouseId">>, <<"statement">>}
      [] name = "databricks_get_experiment_by_name" ->
            {<<"experimentName">>}
      [] name = "databricks_get_sql_result_chunk" ->
            {<<"statementId">>, <<"chunkIndex">>}
      [] name \in {"databricks_get_warehouse", "databricks_start_warehouse",
                   "databricks_stop_warehouse"} ->
            {<<"warehouseId">>}
      [] name = "databricks_import_notebook" ->
            {<<"path">>, <<"content">>, <<"format">>}
      [] name \in {"databricks_list_functions", "databricks_list_tables",
                   "databricks_list_volumes"} ->
            {<<"catalogName">>, <<"schemaName">>}
      [] name = "databricks_list_schemas" ->
            {<<"catalogName">>}
      [] name \in {"databricks_log_metric", "databricks_log_param", "databricks_set_tag"} ->
            {<<"runId">>, <<"key">>, <<"value">>}
      [] name = "databricks_move_dbfs" ->
            {<<"sourcePath">>, <<"destinationPath">>}
      [] name = "databricks_put_dbfs" ->
            {<<"path">>, <<"contents">>}
      [] name = "databricks_put_secret" ->
            {<<"scope">>, <<"key">>, <<"value">>}
      [] name = "databricks_put_secret_acl" ->
            {<<"scope">>, <<"principal">>, <<"permission">>}
      [] name = "databricks_revoke_token" ->
            {<<"tokenId">>}
      [] name = "databricks_search_runs" ->
            {<<"experimentIds">>}
      [] name = "databricks_update_job" ->
            {<<"jobId">>, <<"settings">>}
      [] name = "databricks_update_pipeline" ->
            {<<"pipelineId">>, <<"spec">>}
      [] name = "databricks_update_run" ->
            {<<"runId">>, <<"status">>}
      [] OTHER -> {}

\* what reading the property `key` of v throws when v is undefined or null
PropertyOfNothing(v, key) ==
    [kind |-> "TypeError",
     message |-> Str(<<"Cannot", "read", "properties", "of",
                       IF v.t = "null" THEN "null" ELSE "undefined",
                       "(reading", "'" \o key[1] \o "')">>)]

\* the characters encodeURIComponent escapes and the UTF-8 bytes it writes
\* for them: those of ASCII and Latin-1 but the grave accent, which no
\* string of this module can hold, and a few more
UriEscapes ==
    <<<<"\t", "%09">>, <<"\n", "%0A">>, <<"\r", "%0D">>, <<"\f", "%0C">>,
      <<" ", "%20">>, <<"\"", "%22">>, <<"#", "%23">>, <<"$", "%24">>,
      <<"%", "%25">>, <<"&", "%26">>, <<"+", "%2B">>, <<",", "%2C">>, <<"/", "%2F">>,
      <<":", "%3A">>, <<";", "%3B">>, <<"<", "%3C">>, <<"=", "%3D">>, <<">", "%3E">>,
      <<"?", "%3F">>, <<"@", "%40">>, <<"[", "%5B">>, <<"\\", "%5C">>,
      <<"]", "%5D">>, <<"^", "%5E">>, <<"{", "%7B">>, <<"|", "%7C">>,
      <<"}", "%7D">>, <<" ", "%C2%A0">>, <<"¡", "%C2%A1">>, <<"¢", "%C2%A2">>,
      <<"£", "%C2%A3">>, <<"¤", "%C2%A4">>, <<"¥", "%C2%A5">>, <<"¦", "%C2%A6">>,
      <<"§", "%C2%A7">>, <<"¨", "%C2%A8">>, <<"©", "%C2%A9">>, <<"ª", "%C2%AA">>,
      <<"«", "%C2%AB">>, <<"¬", "%C2%AC">>, <<"­", "%C2%AD">>, <<"®", "%C2%AE">>,
      <<"¯", "%C2%AF">>, <<"°", "%C2%B0">>, <<"±", "%C2%B1">>, <<"²", "%C2%B2">>,
      <<"³", "%C2%B3">>, <<"´", "%C2%B4">>, <<"µ", "%C2%B5">>, <<"¶", "%C2%B6">>,
      <<"·", "%C2%B7">>, <<"¸", "%C2%B8">>, <<"¹", "%C2%B9">>, <<"º", "%C2%BA">>,
      <<"»", "%C2%BB">>, <<"¼", "%C2%BC">>, <<"½", "%C2%BD">>, <<"¾", "%C2%BE">>,
      <<"¿", "%C2%BF">>, <<"À", "%C3%80">>, <<"Á", "%C3%81">>, <<"Â", "%C3%82">>,
      <<"Ã", "%C3%83">>, <<"Ä", "%C3%84">>, <<"Å", "%C3%85">>, <<"Æ", "%C3%86">>,
      <<"Ç", "%C3%87">>, <<"È", "%C3%88">>, <<"É", "%C3%89">>, <<"Ê", "%C3%8A">>,
      <<"Ë", "%C3%8B">>, <<"Ì", "%C3%8C">>, <<"Í", "%C3%8D">>, <<"Î", "%C3%8E">>,
      <<"Ï", "%C3%8F">>, <<"Ð", "%C3%90">>, <<"Ñ", "%C3%91">>, <<"Ò", "%C3%92">>,
      <<"Ó", "%C3%93">>, <<"Ô", "%C3%94">>, <<"Õ", "%C3%95">>, <<"Ö", "%C3%96">>,
      <<"×", "%C3%97">>, <<"Ø", "%C3%98">>, <<"Ù", "%C3%99">>, <<"Ú", "%C3%9A">>,
      <<"Û", "%C3%9B">>, <<"Ü", "%C3%9C">>, <<"Ý", "%C3%9D">>, <<"Þ", "%C3%9E">>,
      <<"ß", "%C3%9F">>, <<"à", "%C3%A0">>, <<"á", "%C3%A1">>, <<"â", "%C3%A2">>,
      <<"ã", "%C3%A3">>, <<"ä", "%C3%A4">>, <<"å", "%C3%A5">>, <<"æ", "%C3%A6">>,
      <<"ç", "%C3%A7">>, <<"è", "%C3%A8">>, <<"é", "%C3%A9">>, <<"ê", "%C3%AA">>,
      <<"ë", "%C3%AB">>, <<"ì", "%C3%AC">>, <<"í", "%C3%AD">>, <<"î", "%C3%AE">>,
      <<"ï", "%C3%AF">>, <<"ð", "%C3%B0">>, <<"ñ", "%C3%B1">>, <<"ò", "%C3%B2">>,
      <<"ó", "%C3%B3">>, <<"ô", "%C3%B4">>, <<"õ", "%C3%B5">>, <<"ö", "%C3%B6">>,
      <<"÷", "%C3%B7">>, <<"ø", "%C3%B8">>, <<"ù", "%C3%B9">>, <<"ú", "%C3%BA">>,
      <<"û", "%C3%BB">>, <<"ü", "%C3%BC">>, <<"ý", "%C3%BD">>, <<"þ", "%C3%BE">>,
      <<"ÿ", "%C3%BF">>, <<"€", "%E2%82%AC">>, <<"α", "%CE%B1">>, <<"β", "%CE%B2">>,
      <<"π", "%CF%80">>, <<"文", "%E6%96%87">>, <<"日", "%E6%97%A5">>,
      <<"語", "%E8%AA%9E">>>>

\* encodeURIComponent(s), one character a chunk: letters, digits and
\* - _ . ! ~ * ' ( ) stay, every other character is escaped
EncodeURIComponent(s) ==
    [i \in DOMAIN s |->
        IF s[i] \in {"A", "B", "C", "D", "E", "F", "G", "H", "I", "J", "K", "L", "M",
                     "N", "O", "P", "Q", "R", "S", "T", "U", "V", "W", "X", "Y", "Z",
                     "a", "b", "c", "d", "e", "f", "g", "h", "i", "j", "k", "l", "m",
                     "n", "o", "p", "q", "r", "s", "t", "u", "v", "w", "x", "y", "z",
                     "0", "1", "2", "3", "4", "5", "6", "7", "8", "9",
                     "-", "_", ".", "!", "~", "*", "'", "(", ")"}
        THEN s[i]
        ELSE UriEscapes[CHOOSE j \in DOMAIN UriEscapes : UriEscapes[j][1] = s[i]][2]]

\* ToString(n) of an index, one character to a chunk
RECURSIVE DecimalDigits(_)
DecimalDigits(n) ==
    IF n < 10 THEN <<Digits[n + 1]>>
    ELSE DecimalDigits(n \div 10) \o <<Digits[(n % 10) + 1]>>

\* the members of [...a] spread into an object: the index is the key
ArrayMembers(a) == [i \in DOMAIN a |-> Member(DecimalDigits(i - 1), a[i])]

\* { ...m, ...v }: an object adds its members, an array its elements and a
\* string its characters (one character a chunk) under their indices; null,
\* undefined, numbers and booleans add nothing
SpreadValue(m, v) ==
    IF v.t = "obj" THEN Spread(m, v.m)
    ELSE IF v.t = "arr" THEN Spread(m, ArrayMembers(v.a))
    ELSE IF v.t = "str"
    THEN Spread(m, ArrayMembers([i \in DOMAIN v.s |-> Str(<<v.s[i]>>)]))
    ELSE m

\* v.length of a value that is not null or undefined: the number of elements
\* of an array and of characters of a string (one character a chunk), the
\* member `length` of an object, nothing for a number or a boolean
LengthOf(v) ==
    CASE v.t = "arr" -> Num(Len(v.a))
      [] v.t = "str" -> Num(Len(v.s))
      [] v.t = "obj" -> Get(v, <<"length">>)
      [] OTHER -> Undefined

\* String(v), and v inside a template literal, one character a chunk but for a
\* string, which keeps its chunks: an integer in digits, the elements of an
\* array joined by commas. An object that has a member toString of its own,
\* which no value of this module can call, does not convert: a TypeError
RECURSIVE ToStr(_)
ToStr(v) ==
    CASE v.t = "str" -> Return(v)
      [] v.t = "num" ->
            Return(Str(IF v.nan THEN <<"N", "a", "N">>
                       ELSE IF v.n < 0 THEN <<"-">> \o DecimalDigits(0 - v.n)
                       ELSE DecimalDigits(v.n)))
      [] v.t = "infinity" ->
            Return(Str((IF v.neg THEN <<"-">> ELSE <<>>)
                       \o <<"I", "n", "f", "i", "n", "i", "t", "y">>))
      [] v.t = "bool" ->
            Return(Str(IF v.b THEN <<"t", "r", "u", "e">>
                       ELSE <<"f", "a", "l", "s", "e">>))
      [] v.t = "undefined" ->
            Return(Str(<<"u", "n", "d", "e", "f", "i", "n", "e", "d">>))
      [] v.t = "null" -> Return(Str(<<"n", "u", "l", "l">>))
      [] v.t = "obj" ->
            IF HasKey(v, <<"toString">>)
            THEN Throw([kind |-> "TypeError",
                        message |-> Str(<<"Cannot", "convert", "object", "to",
                                          "primitive", "value">>)])
            ELSE Return(Str(<<"[", "o", "b", "j", "e", "c", "t", " ",
                              "O", "b", "j", "e", "c", "t", "]">>))
      [] v.t = "arr" ->
            IF v.a = <<>> THEN Return(Str(<<>>))
            ELSE LET first == IF Head(v.a).t \in {"undefined", "null"}
                              THEN Return(Str(<<>>))
                              ELSE ToStr(Head(v.a))
                     rest == ToStr(Arr(Tail(v.a)))
                 IN  IF first.t = "throw" THEN first
                     ELSE IF rest.t = "throw" THEN rest
                     ELSE Return(Str(first.value.s
                                     \o (IF Len(v.a) = 1 THEN <<>>
                                         ELSE <<",">> \o rest.value.s)))

\* the chunks of a string as one word of a message
RECURSIVE Word(_)
Word(s) == IF s = <<>> THEN "" ELSE Head(s) \o Word(Tail(s))

\* a name or a value as URLSearchParams writes it, one character a chunk:
\* letters, digits and * - . _ stay, a space becomes +, every other character
\* is escaped
FormEncode(s) ==
    [i \in DOMAIN s |->
        CASE s[i] = " " -> "+"
          [] s[i] = "!" -> "%21"
          [] s[i] = "'" -> "%27"
          [] s[i] = "(" -> "%28"
          [] s[i] = ")" -> "%29"
          [] s[i] = "~" -> "%7E"
          [] OTHER -> EncodeURIComponent(<<s[i]>>)[1]]

\* params.toString() after `if (v) params.set(k, String(v))` for each pair
\* <<k, v>> in turn; a value that does not convert throws
RECURSIVE QueryString(_)
QueryString(pairs) ==
    IF pairs = <<>> THEN Return(Str(<<>>))
    ELSE IF ~Truthy(Head(pairs)[2]) THEN QueryString(Tail(pairs))
    ELSE LET value == ToStr(Head(pairs)[2])
             rest == QueryString(Tail(pairs))
         IN  IF value.t = "throw" THEN value
             ELSE IF rest.t = "throw" THEN rest
             ELSE Return(Str(<<Head(pairs)[1], "=">> \o FormEncode(value.value.s)
                             \o (IF rest.value.s = <<>> THEN <<>>
                                 ELSE <<"&">> \o rest.value.s)))

\* a text that does not parse gives undefined
ParseArgument_Lenient(text) ==
    LET parsed == JSONParse(text.lex)
    IN  IF parsed.ok THEN Return(parsed.value) ELSE Return(Undefined)

\* JSON.parse(text) of a string argument
ParseArgument(text) ==
    LET parsed == JSONParse(text.lex)
    IN  IF parsed.ok THEN Return(parsed.value) ELSE Throw(SyntaxError)

\* the keys of a tool's shape that are `.optional()`
OptionalArgs(name) ==
    CASE name \in {"databricks_create_catalog", "databricks_create_schema"} ->
            {<<"comment">>}
      [] name = "databricks_create_cluster" ->
            {<<"numWorkers">>, <<"minWorkers">>, <<"maxWorkers">>,
             <<"autoterminationMinutes">>}
      [] name = "databricks_create_experiment" ->
            {<<"artifactLocation">>}
      [] name = "databricks_create_instance_pool" ->
            {<<"minIdleInstances">>, <<"maxCapacity">>,
             <<"idleInstanceAutoterminationMinutes">>}
      [] name = "databricks_create_job" ->
            {<<"schedule">>, <<"timezone">>}
      [] name = "databricks_create_model" ->
            {<<"description">>, <<"tags">>}
      [] name = "databricks_create_repo" ->
            {<<"path">>}
      [] name = "databricks_create_run" ->
            {<<"runName">>, <<"tags">>}
      [] name = "databricks_create_token" ->
            {<<"comment">>, <<"lifetimeSeconds">>}
      [] name = "databricks_create_volume" ->
            {<<"storageLocation">>, <<"comment">>}
      [] name = "databricks_delete_catalog" ->
            {<<"force">>}
      [] name \in {"databricks_delete_dbfs", "databricks_delete_workspace"} ->
            {<<"recursive">>}
      [] name = "databricks_edit_instance_pool" ->
            {<<"minIdleInstances">>, <<"maxCapacity">>}
      [] name = "databricks_execute_sql" ->
            {<<"catalog">>, <<"schema">>, <<"waitTimeout">>, <<"format">>}
      [] name = "databricks_export_notebook" ->
            {<<"format">>}
      [] name = "databricks_import_notebook" ->
            {<<"language">>, <<"overwrite">>}
      [] name = "databricks_list_cluster_events" ->
            {<<"limit">>}
      [] name \in {"databricks_list_experiments", "databricks_list_models"} ->
            {<<"maxResults">>, <<"pageToken">>}
      [] name = "databricks_list_jobs" ->
            {<<"limit">>, <<"offset">>, <<"name">>}
      [] name = "databricks_list_pipelines" ->
            {<<"maxResults">>, <<"pageToken">>, <<"filter">>}
      [] name = "databricks_list_repos" ->
            {<<"pathPrefix">>, <<"pageToken">>}
      [] name = "databricks_list_runs" ->
            {<<"jobId">>, <<"activeOnly">>, <<"completedOnly">>, <<"limit">>,
             <<"offset">>}
      [] name = "databricks_log_metric" ->
            {<<"timestamp">>, <<"step">>}
      [] name = "databricks_put_dbfs" ->
            {<<"overwrite">>}
      [] name = "databricks_read_dbfs" ->
            {<<"offset">>, <<"length">>}
      [] name = "databricks_run_job" ->
            {<<"parameters">>}
      [] name = "databricks_search_runs" ->
            {<<"filter">>, <<"maxResults">>, <<"orderBy">>, <<"pageToken">>}
      [] name = "databricks_start_pipeline" ->
            {<<"fullRefresh">>}
      [] name = "databricks_update_repo" ->
            {<<"branch">>, <<"tag">>}
      [] name = "databricks_update_run" ->
            {<<"endTime">>}
      [] OTHER -> {}

\* what the shape of a tool asks of the argument `key`: z.string(), or
\* z.number().int() with its .min() and .max() where it has them,
\* z.boolean(), z.enum([...]), z.array(z.string()), z.number()
ArgKind(name, key) ==
    LET kind(k, lo, hi, values) == [kind |-> k, min |-> lo, max |-> hi, values |-> values]
        string == kind("string", {}, {}, {})
        boolean == kind("boolean", {}, {}, {})
        number == kind("number", {}, {}, {})
        strings == kind("strings", {}, {}, {})
        int(lo, hi) == kind("int", lo, hi, {})
        enum(values) == kind("enum", {}, {}, values)
    IN
    CASE key = <<"format">> /\ name = "databricks_execute_sql" ->
            enum({"JSON_ARRAY", "CSV", "ARROW_STREAM"})
      [] key = <<"format">> /\ name \in {"databricks_import_notebook", "databricks_export_notebook"} ->
            enum({"SOURCE", "HTML", "JUPYTER", "DBC", "R_MARKDOWN"})
      [] key = <<"limit">> /\ name = "databricks_list_cluster_events" ->
            int({1}, {500})
      [] key = <<"limit">> /\ name \in {"databricks_list_jobs", "databricks_list_runs"} ->
            int({1}, {100})
      [] key = <<"maxResults">> /\ name = "databricks_list_pipelines" ->
            int({1}, {100})
      [] key = <<"maxResults">> /\ name \in {"databricks_list_experiments", "databricks_list_models"} ->
            int({1}, {1000})
      [] key = <<"maxResults">> /\ name = "databricks_search_runs" ->
            int({1}, {50000})
      [] key = <<"runId">> /\ name \in {"databricks_get_run", "databricks_get_run_output",
                        "databricks_cancel_run"} ->
            int({}, {})
      [] key = <<"value">> /\ name = "databricks_log_metric" ->
            number
      [] key \in {<<"activeOnly">>, <<"completedOnly">>, <<"force">>,
                   <<"fullRefresh">>, <<"overwrite">>, <<"recursive">>} -> boolean
      [] key \in {<<"autoterminationMinutes">>, <<"chunkIndex">>,
                   <<"idleInstanceAutoterminationMinutes">>, <<"minIdleInstances">>,
                   <<"minWorkers">>, <<"numWorkers">>, <<"offset">>} -> int({0}, {})
      [] key \in {<<"credentialId">>, <<"endTime">>, <<"jobId">>, <<"repoId">>,
                   <<"step">>, <<"timestamp">>} -> int({}, {})
      [] key \in {<<"experimentIds">>, <<"orderBy">>} -> strings
      [] key = <<"language">> -> enum({"PYTHON", "SCALA", "SQL", "R"})
      [] key = <<"length">> -> int({1}, {1048576})
      [] key = <<"lifetimeSeconds">> -> int({60}, {})
      [] key \in {<<"maxCapacity">>, <<"maxWorkers">>} -> int({1}, {})
      [] key = <<"permission">> -> enum({"READ", "WRITE", "MANAGE"})
      [] key = <<"status">> -> enum({"RUNNING", "SCHEDULED", "FINISHED", "FAILED", "KILLED"})
      [] key = <<"volumeType">> -> enum({"MANAGED", "EXTERNAL"})
      [] OTHER -> string

\* the value passes the check of its kind
Conforms(v, kind) ==
    CASE kind.kind = "string" -> v.t \in {"str", "text"}
      [] kind.kind = "boolean" -> v.t = "bool"
      \* z.number() refuses NaN and takes the two infinite numbers
      [] kind.kind = "number" -> (v.t = "num" /\ ~v.nan) \/ v.t = "infinity"
      \* every finite number of the model is an integer
      [] kind.kind = "int" ->
            /\ v.t = "num" /\ ~v.nan
            /\ \A lo \in kind.min : v.n >= lo
            /\ \A hi \in kind.max : v.n <= hi
      [] kind.kind = "enum" -> v.t = "str" /\ Word(v.s) \in kind.values
      [] kind.kind = "strings" ->
            v.t = "arr" /\ \A i \in DOMAIN v.a : v.a[i].t = "str"

\* the arguments of a tools/call pass the tool's shape: each required key
\* holds a value of its kind, each optional key such a value or nothing
ShapeAccepts(name, args) ==
    /\ \A key \in RequiredArgs(name) : Conforms(Get(args, key), ArgKind(name, key))
    /\ \A key \in OptionalArgs(name) :
          \/ Get(args, key) = Undefined
          \/ Conforms(Get(args, key), ArgKind(name, key))

\* a method of DatabricksClientImpl up to the await of its wrapper: the
\* request it makes of a[1], a[2], ..., the arguments of the call; `now` is
\* what Date.now() gives
ClientCall(name, a, now) ==
    LET arg(i) == IF i <= Len(a) THEN a[i] ELSE Undefined
        \* a parameter with a default value
        default(i, d) == IF arg(i) = Undefined THEN d ELSE arg(i)
        \* options?.key
        option(i, key) == Get(arg(i), <<key>>)
        text(i) == ToStr(arg(i)).value.s
        encoded(i) == EncodeURIComponent(text(i))
        get(path) == Descriptor(Str(<<"/">> \o path), "GET", Undefined)
        post(path, body) == Descriptor(Str(<<"/">> \o path), "POST", body)
        put(path, body) == Descriptor(Str(<<"/">> \o path), "PUT", body)
        patch(path, body) == Descriptor(Str(<<"/">> \o path), "PATCH", body)
        delete(path) == Descriptor(Str(<<"/">> \o path), "DELETE", Undefined)
        \* the names and the values of `if (v) params.set(k, String(v))`
        pairs ==
            CASE name = "listJobs" ->
                    <<<<"limit", option(1, "limit")>>,
                      <<"offset", option(1, "offset")>>,
                      <<"name", option(1, "name")>>>>
              [] name = "listRuns" ->
                    <<<<"job_id", option(1, "jobId")>>,
                      <<"active_only",
                        IF Truthy(option(1, "activeOnly")) THEN Bool(TRUE)
                        ELSE Undefined>>,
                      <<"completed_only",
                        IF Truthy(option(1, "completedOnly")) THEN Bool(TRUE)
                        ELSE Undefined>>,
                      <<"limit", option(1, "limit")>>,
                      <<"offset", option(1, "offset")>>>>
              [] name = "listExperiments" ->
                    <<<<"max_results", option(1, "maxResults")>>,
                      <<"page_token", option(1, "pageToken")>>>>
              [] name = "listRegisteredModels" ->
                    <<<<"max_results", option(1, "maxResults")>>,
                      <<"page_token", option(1, "pageToken")>>>>
              [] name = "listRepos" ->
                    <<<<"path_prefix", option(1, "pathPrefix")>>,
                      <<"next_page_token", option(1, "nextPageToken")>>>>
              [] name = "listPipelines" ->
                    <<<<"max_results", option(1, "maxResults")>>,
                      <<"page_token", option(1, "pageToken")>>,
                      <<"filter", option(1, "filter")>>>>
              [] OTHER -> <<>>
        \* path${queryString ? `?${queryString}` : ''}
        query(path) ==
            <<path>> \o (IF QueryString(pairs).value.s = <<>> THEN <<>>
                         ELSE <<"?">> \o QueryString(pairs).value.s)
        one(k, v) == Obj(<<Member(<<k>>, v)>>)
        \* what the method makes a string of, as ToStr gives it: a parameter in
        \* a template or in encodeURIComponent, and the query string
        strings ==
            (IF name \in {"getStatementStatus", "getStatementResultChunk",
                         "cancelStatement", "getWarehouse", "startWarehouse",
                         "stopWarehouse", "getJob", "getRun", "getRunOutput",
                         "getCluster", "listWorkspace", "getWorkspaceStatus",
                         "exportWorkspace", "listDbfs", "getDbfsStatus", "readDbfs",
                         "getCatalog", "updateCatalog", "deleteCatalog", "listSchemas",
                         "getSchema", "updateSchema", "deleteSchema", "listTables",
                         "getTable", "deleteTable", "listVolumes", "getVolume",
                         "updateVolume", "deleteVolume", "listFunctions",
                         "getFunction", "getExperiment", "getExperimentByName",
                         "getMlflowRun", "getRegisteredModel", "deleteRegisteredModel",
                         "listModelVersions", "getModelVersion", "deleteModelVersion",
                         "listSecrets", "listSecretAcls", "getSecretAcl", "getRepo",
                         "updateRepo", "deleteRepo", "updateGitCredential",
                         "deleteGitCredential", "getInstancePool", "getPipeline",
                         "updatePipeline", "deletePipeline", "startPipelineUpdate",
                         "stopPipeline"}
             THEN <<ToStr(arg(1))>> ELSE <<>>)
            \o (IF name \in {"getStatementResultChunk", "listTables", "listVolumes",
                            "listFunctions", "getModelVersion", "deleteModelVersion",
                            "getSecretAcl"}
                THEN <<ToStr(arg(2))>> ELSE <<>>)
            \o (CASE name = "exportWorkspace" -> <<ToStr(default(2, Str(<<"SOURCE">>)))>>
                  [] name = "readDbfs" ->
                        <<ToStr(default(2, Num(0))), ToStr(default(3, Num(1048576)))>>
                  [] name = "deleteCatalog" -> <<ToStr(default(2, Bool(FALSE)))>>
                  [] OTHER -> <<>>)
            \o <<QueryString(pairs)>>
        \* the request of the method
        request ==
            CASE name = "testConnection" -> get(<<"api/2.0/preview/scim/v2/Me">>)
              \* SQL statements and warehouses
              [] name = "executeStatement" ->
                    post(<<"api/2.0/sql/statements">>,
                         Obj(<<Member(<<"warehouse_id">>, arg(1)),
                               Member(<<"statement">>, arg(2)),
                               Member(<<"catalog">>, option(3, "catalog")),
                               Member(<<"schema">>, option(3, "schema")),
                               Member(<<"wait_timeout">>,
                                      Or(option(3, "waitTimeout"), Str(<<"50s">>))),
                               Member(<<"disposition">>,
                                      Or(option(3, "disposition"), Str(<<"INLINE">>))),
                               Member(<<"format">>,
                                      Or(option(3, "format"), Str(<<"JSON_ARRAY">>)))>>))
              [] name = "getStatementStatus" -> get(<<"api/2.0/sql/statements/">> \o text(1))
              [] name = "getStatementResultChunk" ->
                    get(<<"api/2.0/sql/statements/">> \o text(1) \o <<"/result/chunks/">>
                        \o text(2))
              [] name = "cancelStatement" ->
                    post(<<"api/2.0/sql/statements/">> \o text(1) \o <<"/cancel">>, Undefined)
              [] name = "listWarehouses" -> get(<<"api/2.0/sql/warehouses">>)
              [] name = "getWarehouse" -> get(<<"api/2.0/sql/warehouses/">> \o text(1))
              [] name = "startWarehouse" ->
                    post(<<"api/2.0/sql/warehouses/">> \o text(1) \o <<"/start">>, Undefined)
              [] name = "stopWarehouse" ->
                    post(<<"api/2.0/sql/warehouses/">> \o text(1) \o <<"/stop">>, Undefined)
              \* jobs and runs
              [] name = "listJobs" -> get(query("api/2.1/jobs/list"))
              [] name = "getJob" -> get(<<"api/2.1/jobs/get?job_id=">> \o text(1))
              [] name = "createJob" -> post(<<"api/2.1/jobs/create">>, arg(1))
              [] name = "updateJob" ->
                    post(<<"api/2.1/jobs/update">>,
                         Obj(<<Member(<<"job_id">>, arg(1)),
                               Member(<<"new_settings">>, arg(2))>>))
              [] name = "deleteJob" -> post(<<"api/2.1/jobs/delete">>, one("job_id", arg(1)))
              [] name = "runJobNow" ->
                    post(<<"api/2.1/jobs/run-now">>,
                         Obj(SpreadValue(<<Member(<<"job_id">>, arg(1))>>, arg(2))))
              [] name = "listRuns" -> get(query("api/2.1/jobs/runs/list"))
              [] name = "getRun" -> get(<<"api/2.1/jobs/runs/get?run_id=">> \o text(1))
              [] name = "getRunOutput" ->
                    get(<<"api/2.1/jobs/runs/get-output?run_id=">> \o text(1))
              [] name = "cancelRun" ->
                    post(<<"api/2.1/jobs/runs/cancel">>, one("run_id", arg(1)))
              [] name = "cancelAllRuns" ->
                    post(<<"api/2.1/jobs/runs/cancel-all">>, one("job_id", arg(1)))
              \* clusters
              [] name = "listClusters" -> get(<<"api/2.0/clusters/list">>)
              [] name = "getCluster" ->
                    get(<<"api/2.0/clusters/get?cluster_id=">> \o text(1))
              [] name = "createCluster" -> post(<<"api/2.0/clusters/create">>, arg(1))
              [] name = "editCluster" ->
                    post(<<"api/2.0/clusters/edit">>,
                         Obj(SpreadValue(<<Member(<<"cluster_id">>, arg(1))>>, arg(2))))
              [] name = "startCluster" ->
                    post(<<"api/2.0/clusters/start">>, one("cluster_id", arg(1)))
              [] name = "restartCluster" ->
                    post(<<"api/2.0/clusters/restart">>, one("cluster_id", arg(1)))
              [] name = "terminateCluster" ->
                    post(<<"api/2.0/clusters/delete">>, one("cluster_id", arg(1)))
              [] name = "deleteCluster" ->
                    post(<<"api/2.0/clusters/permanent-delete">>, one("cluster_id", arg(1)))
              [] name = "listClusterEvents" ->
                    post(<<"api/2.0/clusters/events">>,
                         Obj(<<Member(<<"cluster_id">>, arg(1)),
                               Member(<<"limit">>, Or(option(2, "limit"), Num(50)))>>))
              [] name = "pinCluster" ->
                    post(<<"api/2.0/clusters/pin">>, one("cluster_id", arg(1)))
              [] name = "unpinCluster" ->
                    post(<<"api/2.0/clusters/unpin">>, one("cluster_id", arg(1)))
              \* workspace
              [] name = "listWorkspace" ->
                    get(<<"api/2.0/workspace/list?path=">> \o encoded(1))
              [] name = "getWorkspaceStatus" ->
                    get(<<"api/2.0/workspace/get-status?path=">> \o encoded(1))
              [] name = "mkdirs" -> post(<<"api/2.0/workspace/mkdirs">>, one("path", arg(1)))
              [] name = "deleteWorkspace" ->
                    post(<<"api/2.0/workspace/delete">>,
                         Obj(<<Member(<<"path">>, arg(1)),
                               Member(<<"recursive">>, default(2, Bool(FALSE)))>>))
              [] name = "importWorkspace" ->
                    post(<<"api/2.0/workspace/import">>,
                         Obj(<<Member(<<"path">>, arg(1)),
                               Member(<<"content">>, arg(2)),
                               Member(<<"format">>, arg(3)),
                               Member(<<"language">>, arg(4)),
                               Member(<<"overwrite">>, default(5, Bool(FALSE)))>>))
              [] name = "exportWorkspace" ->
                    get(<<"api/2.0/workspace/export?path=">> \o encoded(1) \o <<"&format=">>
                        \o ToStr(default(2, Str(<<"SOURCE">>))).value.s)
              \* DBFS
              [] name = "listDbfs" -> get(<<"api/2.0/dbfs/list?path=">> \o encoded(1))
              [] name = "getDbfsStatus" ->
                    get(<<"api/2.0/dbfs/get-status?path=">> \o encoded(1))
              [] name = "mkdirsDbfs" -> post(<<"api/2.0/dbfs/mkdirs">>, one("path", arg(1)))
              [] name = "deleteDbfs" ->
                    post(<<"api/2.0/dbfs/delete">>,
                         Obj(<<Member(<<"path">>, arg(1)),
                               Member(<<"recursive">>, default(2, Bool(FALSE)))>>))
              [] name = "readDbfs" ->
                    get(<<"api/2.0/dbfs/read?path=">> \o encoded(1) \o <<"&offset=">>
                        \o ToStr(default(2, Num(0))).value.s \o <<"&length=">>
                        \o ToStr(default(3, Num(1048576))).value.s)
              [] name = "putDbfs" ->
                    post(<<"api/2.0/dbfs/put">>,
                         Obj(<<Member(<<"path">>, arg(1)),
                               Member(<<"contents">>, arg(2)),
                               Member(<<"overwrite">>, default(3, Bool(FALSE)))>>))
              [] name = "moveDbfs" ->
                    post(<<"api/2.0/dbfs/move">>,
                         Obj(<<Member(<<"source_path">>, arg(1)),
                               Member(<<"destination_path">>, arg(2))>>))
              \* Unity Catalog
              [] name = "listCatalogs" -> get(<<"api/2.1/unity-catalog/catalogs">>)
              [] name = "getCatalog" ->
                    get(<<"api/2.1/unity-catalog/catalogs/">> \o encoded(1))
              [] name = "createCatalog" ->
                    post(<<"api/2.1/unity-catalog/catalogs">>,
                         Obj(<<Member(<<"name">>, arg(1)),
                               Member(<<"comment">>, option(2, "comment")),
                               Member(<<"properties">>, option(2, "properties"))>>))
              [] name = "updateCatalog" ->
                    patch(<<"api/2.1/unity-catalog/catalogs/">> \o encoded(1), arg(2))
              [] name = "deleteCatalog" ->
                    delete(<<"api/2.1/unity-catalog/catalogs/">> \o encoded(1) \o <<"?force=">>
                           \o ToStr(default(2, Bool(FALSE))).value.s)
              [] name = "listSchemas" ->
                    get(<<"api/2.1/unity-catalog/schemas?catalog_name=">> \o encoded(1))
              [] name = "getSchema" ->
                    get(<<"api/2.1/unity-catalog/schemas/">> \o encoded(1))
              [] name = "createSchema" ->
                    post(<<"api/2.1/unity-catalog/schemas">>,
                         Obj(<<Member(<<"catalog_name">>, arg(1)),
                               Member(<<"name">>, arg(2)),
                               Member(<<"comment">>, option(3, "comment")),
                               Member(<<"properties">>, option(3, "properties"))>>))
              [] name = "updateSchema" ->
                    patch(<<"api/2.1/unity-catalog/schemas/">> \o encoded(1), arg(2))
              [] name = "deleteSchema" ->
                    delete(<<"api/2.1/unity-catalog/schemas/">> \o encoded(1))
              [] name = "listTables" ->
                    get(<<"api/2.1/unity-catalog/tables?catalog_name=">> \o encoded(1)
                        \o <<"&schema_name=">> \o encoded(2))
              [] name = "getTable" -> get(<<"api/2.1/unity-catalog/tables/">> \o encoded(1))
              [] name = "deleteTable" ->
                    delete(<<"api/2.1/unity-catalog/tables/">> \o encoded(1))
              [] name = "listVolumes" ->
                    get(<<"api/2.1/unity-catalog/volumes?catalog_name=">> \o encoded(1)
                        \o <<"&schema_name=">> \o encoded(2))
              [] name = "getVolume" -> get(<<"api/2.1/unity-catalog/volumes/">> \o encoded(1))
              [] name = "createVolume" ->
                    post(<<"api/2.1/unity-catalog/volumes">>,
                         Obj(<<Member(<<"catalog_name">>, arg(1)),
                               Member(<<"schema_name">>, arg(2)),
                               Member(<<"name">>, arg(3)),
                               Member(<<"volume_type">>, arg(4)),
                               Member(<<"storage_location">>, option(5, "storageLocation")),
                               Member(<<"comment">>, option(5, "comment"))>>))
              [] name = "updateVolume" ->
                    patch(<<"api/2.1/unity-catalog/volumes/">> \o encoded(1), arg(2))
              [] name = "deleteVolume" ->
                    delete(<<"api/2.1/unity-catalog/volumes/">> \o encoded(1))
              [] name = "listFunctions" ->
                    get(<<"api/2.1/unity-catalog/functions?catalog_name=">> \o encoded(1)
                        \o <<"&schema_name=">> \o encoded(2))
              [] name = "getFunction" ->
                    get(<<"api/2.1/unity-catalog/functions/">> \o encoded(1))
              \* MLflow experiments, runs and models
              [] name = "listExperiments" ->
                    get(query("api/2.0/mlflow/experiments/search"))
              [] name = "getExperiment" ->
                    get(<<"api/2.0/mlflow/experiments/get?experiment_id=">> \o text(1))
              [] name = "getExperimentByName" ->
                    get(<<"api/2.0/mlflow/experiments/get-by-name?experiment_name=">>
                        \o encoded(1))
              [] name = "createExperiment" ->
                    post(<<"api/2.0/mlflow/experiments/create">>,
                         Obj(<<Member(<<"name">>, arg(1)),
                               Member(<<"artifact_location">>, arg(2))>>))
              [] name = "deleteExperiment" ->
                    post(<<"api/2.0/mlflow/experiments/delete">>, one("experiment_id", arg(1)))
              [] name = "restoreExperiment" ->
                    post(<<"api/2.0/mlflow/experiments/restore">>, one("experiment_id", arg(1)))
              [] name = "updateExperiment" ->
                    post(<<"api/2.0/mlflow/experiments/update">>,
                         Obj(<<Member(<<"experiment_id">>, arg(1)),
                               Member(<<"new_name">>, arg(2))>>))
              [] name = "searchMlflowRuns" ->
                    post(<<"api/2.0/mlflow/runs/search">>,
                         Obj(<<Member(<<"experiment_ids">>, option(1, "experimentIds")),
                               Member(<<"filter">>, option(1, "filter")),
                               Member(<<"max_results">>, option(1, "maxResults")),
                               Member(<<"order_by">>, option(1, "orderBy")),
                               Member(<<"page_token">>, option(1, "pageToken"))>>))
              [] name = "getMlflowRun" ->
                    get(<<"api/2.0/mlflow/runs/get?run_id=">> \o encoded(1))
              [] name = "createMlflowRun" ->
                    post(<<"api/2.0/mlflow/runs/create">>,
                         Obj(<<Member(<<"experiment_id">>, arg(1)),
                               Member(<<"run_name">>, option(2, "runName")),
                               Member(<<"start_time">>, Or(option(2, "startTime"), now)),
                               Member(<<"tags">>, option(2, "tags"))>>))
              [] name = "updateMlflowRun" ->
                    post(<<"api/2.0/mlflow/runs/update">>,
                         Obj(<<Member(<<"run_id">>, arg(1)),
                               Member(<<"status">>, arg(2)),
                               Member(<<"end_time">>, arg(3))>>))
              [] name = "deleteMlflowRun" ->
                    post(<<"api/2.0/mlflow/runs/delete">>, one("run_id", arg(1)))
              [] name = "restoreMlflowRun" ->
                    post(<<"api/2.0/mlflow/runs/restore">>, one("run_id", arg(1)))
              [] name = "logMetric" ->
                    post(<<"api/2.0/mlflow/runs/log-metric">>,
                         Obj(<<Member(<<"run_id">>, arg(1)),
                               Member(<<"key">>, arg(2)),
                               Member(<<"value">>, arg(3)),
                               Member(<<"timestamp">>, Or(arg(4), now)),
                               Member(<<"step">>, arg(5))>>))
              [] name = "logParam" ->
                    post(<<"api/2.0/mlflow/runs/log-parameter">>,
                         Obj(<<Member(<<"run_id">>, arg(1)),
                               Member(<<"key">>, arg(2)),
                               Member(<<"value">>, arg(3))>>))
              [] name = "setTag" ->
                    post(<<"api/2.0/mlflow/runs/set-tag">>,
                         Obj(<<Member(<<"run_id">>, arg(1)),
                               Member(<<"key">>, arg(2)),
                               Member(<<"value">>, arg(3))>>))
              [] name = "listRegisteredModels" ->
                    get(query("api/2.0/mlflow/registered-models/search"))
              [] name = "getRegisteredModel" ->
                    get(<<"api/2.0/mlflow/registered-models/get?name=">> \o encoded(1))
              [] name = "createRegisteredModel" ->
                    post(<<"api/2.0/mlflow/registered-models/create">>,
                         Obj(<<Member(<<"name">>, arg(1)),
                               Member(<<"description">>, option(2, "description")),
                               Member(<<"tags">>, option(2, "tags"))>>))
              [] name = "updateRegisteredModel" ->
                    patch(<<"api/2.0/mlflow/registered-models/update">>,
                          Obj(<<Member(<<"name">>, arg(1)),
                                Member(<<"description">>, arg(2))>>))
              [] name = "deleteRegisteredModel" ->
                    delete(<<"api/2.0/mlflow/registered-models/delete?name=">> \o encoded(1))
              [] name = "listModelVersions" ->
                    get(<<"api/2.0/mlflow/model-versions/search?filter=name='">> \o encoded(1)
                        \o <<"'">>)
              [] name = "getModelVersion" ->
                    get(<<"api/2.0/mlflow/model-versions/get?name=">> \o encoded(1)
                        \o <<"&version=">> \o text(2))
              [] name = "deleteModelVersion" ->
                    delete(<<"api/2.0/mlflow/model-versions/delete?name=">> \o encoded(1)
                           \o <<"&version=">> \o text(2))
              \* secrets
              [] name = "listSecretScopes" -> get(<<"api/2.0/secrets/scopes/list">>)
              [] name = "createSecretScope" ->
                    post(<<"api/2.0/secrets/scopes/create">>,
                         Obj(<<Member(<<"scope">>, arg(1)),
                               Member(<<"scope_backend_type">>,
                                      Or(option(2, "backendType"), Str(<<"DATABRICKS">>)))>>))
              [] name = "deleteSecretScope" ->
                    post(<<"api/2.0/secrets/scopes/delete">>, one("scope", arg(1)))
              [] name = "listSecrets" -> get(<<"api/2.0/secrets/list?scope=">> \o encoded(1))
              [] name = "putSecret" ->
                    post(<<"api/2.0/secrets/put">>,
                         Obj(<<Member(<<"scope">>, arg(1)),
                               Member(<<"key">>, arg(2)),
                               Member(<<"string_value">>, arg(3))>>))
              [] name = "deleteSecret" ->
                    post(<<"api/2.0/secrets/delete">>,
                         Obj(<<Member(<<"scope">>, arg(1)), Member(<<"key">>, arg(2))>>))
              [] name = "listSecretAcls" ->
                    get(<<"api/2.0/secrets/acls/list?scope=">> \o encoded(1))
              [] name = "getSecretAcl" ->
                    get(<<"api/2.0/secrets/acls/get?scope=">> \o encoded(1)
                        \o <<"&principal=">> \o encoded(2))
              [] name = "putSecretAcl" ->
                    post(<<"api/2.0/secrets/acls/put">>,
                         Obj(<<Member(<<"scope">>, arg(1)),
                               Member(<<"principal">>, arg(2)),
                               Member(<<"permission">>, arg(3))>>))
              [] name = "deleteSecretAcl" ->
                    post(<<"api/2.0/secrets/acls/delete">>,
                         Obj(<<Member(<<"scope">>, arg(1)),
                               Member(<<"principal">>, arg(2))>>))
              \* repos and git credentials
              [] name = "listRepos" -> get(query("api/2.0/repos"))
              [] name = "getRepo" -> get(<<"api/2.0/repos/">> \o text(1))
              [] name = "createRepo" ->
                    post(<<"api/2.0/repos">>,
                         Obj(<<Member(<<"url">>, arg(1)),
                               Member(<<"provider">>, arg(2)),
                               Member(<<"path">>, arg(3))>>))
              [] name = "updateRepo" -> patch(<<"api/2.0/repos/">> \o text(1), arg(2))
              [] name = "deleteRepo" -> delete(<<"api/2.0/repos/">> \o text(1))
              [] name = "listGitCredentials" -> get(<<"api/2.0/git-credentials">>)
              [] name = "createGitCredential" ->
                    post(<<"api/2.0/git-credentials">>,
                         Obj(<<Member(<<"git_provider">>, arg(1)),
                               Member(<<"git_username">>, arg(2)),
                               Member(<<"personal_access_token">>, arg(3))>>))
              [] name = "updateGitCredential" ->
                    patch(<<"api/2.0/git-credentials/">> \o text(1),
                          Obj(<<Member(<<"git_username">>, arg(2)),
                                Member(<<"personal_access_token">>, arg(3))>>))
              [] name = "deleteGitCredential" ->
                    delete(<<"api/2.0/git-credentials/">> \o text(1))
              \* instance pools
              [] name = "listInstancePools" -> get(<<"api/2.0/instance-pools/list">>)
              [] name = "getInstancePool" ->
                    get(<<"api/2.0/instance-pools/get?instance_pool_id=">> \o text(1))
              [] name = "createInstancePool" ->
                    post(<<"api/2.0/instance-pools/create">>, arg(1))
              [] name = "editInstancePool" ->
                    post(<<"api/2.0/instance-pools/edit">>,
                         Obj(SpreadValue(<<Member(<<"instance_pool_id">>, arg(1))>>, arg(2))))
              [] name = "deleteInstancePool" ->
                    post(<<"api/2.0/instance-pools/delete">>, one("instance_pool_id", arg(1)))
              \* pipelines
              [] name = "listPipelines" -> get(query("api/2.0/pipelines"))
              [] name = "getPipeline" -> get(<<"api/2.0/pipelines/">> \o text(1))
              [] name = "createPipeline" -> post(<<"api/2.0/pipelines">>, arg(1))
              [] name = "updatePipeline" -> put(<<"api/2.0/pipelines/">> \o text(1), arg(2))
              [] name = "deletePipeline" -> delete(<<"api/2.0/pipelines/">> \o text(1))
              [] name = "startPipelineUpdate" ->
                    post(<<"api/2.0/pipelines/">> \o text(1) \o <<"/updates">>,
                         one("full_refresh", option(2, "fullRefresh")))
              [] name = "stopPipeline" ->
                    post(<<"api/2.0/pipelines/">> \o text(1) \o <<"/stop">>, Undefined)
              \* tokens
              [] name = "listTokens" -> get(<<"api/2.0/token/list">>)
              [] name = "createToken" ->
                    post(<<"api/2.0/token/create">>,
                         Obj(<<Member(<<"comment">>, arg(1)),
                               Member(<<"lifetime_seconds">>, arg(2))>>))
              [] name = "revokeToken" ->
                    post(<<"api/2.0/token/delete">>, one("token_id", arg(1)))
        \* a value that does not convert throws before any request is made
        settled(rs) ==
            IF \E i \in DOMAIN rs : rs[i].t = "throw"
            THEN rs[CHOOSE i \in DOMAIN rs :
                       /\ rs[i].t = "throw"
                       /\ \A j \in 1..(i - 1) : rs[j].t # "throw"]
            ELSE Return(request)
    IN  settled(strings)

\* the key is returned as it is: no `|| []`
Unwrap_NoDefault(o, key) ==
    IF o.t = "throw" THEN o
    ELSE IF o.value.t \in {"undefined", "null"}
    THEN Throw(PropertyOfNothing(o.value, key))
    ELSE Return(Get(o.value, key))

\* `response.<key> || []` after the await
Unwrap(o, key) ==
    IF o.t = "throw" THEN o
    ELSE IF o.value.t \in {"undefined", "null"}
    THEN Throw(PropertyOfNothing(o.value, key))
    ELSE Return(Or(Get(o.value, key), Arr(<<>>)))

\* no catch: the error of request() leaves testConnection()
testConnectionReturn_Rethrow(o) ==
    IF o.t = "return"
    THEN Return(Obj(<<Member(<<"connected">>, Bool(TRUE)),
                      Member(<<"message">>,
                             Str(<<"Successfully", "connected", "to", "Databricks",
                                   "workspace">>))>>))
    ELSE o

\* testConnection() from its await on: every error of the model is an
\* instance of Error
testConnectionReturn(o) ==
    IF o.t = "return"
    THEN Return(Obj(<<Member(<<"connected">>, Bool(TRUE)),
                      Member(<<"message">>,
                             Str(<<"Successfully", "connected", "to", "Databricks",
                                   "workspace">>))>>))
    ELSE Return(Obj(<<Member(<<"connected">>, Bool(FALSE)),
                      Member(<<"message">>, o.error.message)>>))

\* the client method from the end of its request() on: what it settles with
ClientReturn(name, o) ==
    LET answer == o.value
        \* an object built of the response, or the error of reading the first
        \* of its keys when there is no response
        built(key, members) ==
            IF answer.t \in {"undefined", "null"}
            THEN Throw(PropertyOfNothing(answer, <<key>>))
            ELSE Return(Obj(members))
        \* response.key || []
        list(key) == Member(<<key>>, Or(Get(answer, <<key>>), Arr(<<>>)))
        same(key) == Member(<<key>>, Get(answer, <<key>>))
        \* response.key
        property(key) ==
            IF answer.t \in {"undefined", "null"}
            THEN Throw(PropertyOfNothing(answer, <<key>>))
            ELSE Return(Get(answer, <<key>>))
    IN
    IF name = "testConnection" THEN testConnectionReturn(o)
    ELSE IF o.t = "throw" THEN o
    ELSE
    CASE name = "listWarehouses" -> Unwrap(o, <<"warehouses">>)
      [] name = "listClusters" -> Unwrap(o, <<"clusters">>)
      [] name = "listWorkspace" -> Unwrap(o, <<"objects">>)
      [] name = "listDbfs" -> Unwrap(o, <<"files">>)
      [] name = "listCatalogs" -> Unwrap(o, <<"catalogs">>)
      [] name = "listSchemas" -> Unwrap(o, <<"schemas">>)
      [] name = "listTables" -> Unwrap(o, <<"tables">>)
      [] name = "listVolumes" -> Unwrap(o, <<"volumes">>)
      [] name = "listFunctions" -> Unwrap(o, <<"functions">>)
      [] name = "listModelVersions" -> Unwrap(o, <<"model_versions">>)
      [] name = "listSecretScopes" -> Unwrap(o, <<"scopes">>)
      [] name = "listSecrets" -> Unwrap(o, <<"secrets">>)
      [] name = "listSecretAcls" -> Unwrap(o, <<"items">>)
      [] name = "listGitCredentials" -> Unwrap(o, <<"credentials">>)
      [] name = "listInstancePools" -> Unwrap(o, <<"instance_pools">>)
      [] name = "listTokens" -> Unwrap(o, <<"token_infos">>)
      [] name = "listJobs" ->
            built("jobs", <<list("jobs"),
                            Member(<<"has_more">>,
                                   Or(Get(answer, <<"has_more">>), Bool(FALSE)))>>)
      [] name = "listRuns" ->
            built("runs", <<list("runs"),
                            Member(<<"has_more">>,
                                   Or(Get(answer, <<"has_more">>), Bool(FALSE)))>>)
      [] name = "listClusterEvents" ->
            built("events", <<list("events"), same("next_page")>>)
      [] name = "listExperiments" ->
            built("experiments", <<list("experiments"), same("next_page_token")>>)
      [] name = "searchMlflowRuns" ->
            built("runs", <<list("runs"), same("next_page_token")>>)
      [] name = "listRegisteredModels" ->
            built("registered_models",
                  <<list("registered_models"), same("next_page_token")>>)
      [] name = "listRepos" -> built("repos", <<list("repos"), same("next_page_token")>>)
      [] name = "listPipelines" ->
            built("statuses", <<list("statuses"), same("next_page_token")>>)
      [] name \in {"getExperiment", "getExperimentByName"} -> property("experiment")
      [] name \in {"getMlflowRun", "createMlflowRun"} -> property("run")
      [] name \in {"getRegisteredModel", "createRegisteredModel",
                   "updateRegisteredModel"} -> property("registered_model")
      [] name = "getModelVersion" -> property("model_version")
      \* `await this.post(...)` and no return
      [] name \in {"cancelStatement", "startWarehouse", "stopWarehouse", "updateJob",
                   "deleteJob", "cancelRun", "cancelAllRuns", "editCluster",
                   "startCluster", "restartCluster", "terminateCluster",
                   "deleteCluster", "pinCluster", "unpinCluster", "mkdirs",
                   "deleteWorkspace", "importWorkspace", "mkdirsDbfs", "deleteDbfs",
                   "putDbfs", "moveDbfs", "deleteCatalog", "deleteSchema",
                   "deleteTable", "deleteVolume", "deleteExperiment",
                   "restoreExperiment", "updateExperiment", "updateMlflowRun",
                   "deleteMlflowRun", "restoreMlflowRun", "logMetric", "logParam",
                   "setTag", "deleteRegisteredModel", "deleteModelVersion",
                   "createSecretScope", "deleteSecretScope", "putSecret",
                   "deleteSecret", "putSecretAcl", "deleteSecretAcl", "deleteRepo",
                   "updateGitCredential", "deleteGitCredential", "editInstancePool",
                   "deleteInstancePool", "updatePipeline", "deletePipeline",
                   "stopPipeline", "revokeToken"} -> Return(Undefined)
      \* `return this.get(...)`: what request() gave
      [] OTHER -> o

\* num_workers is set whenever numWorkers is given
CreateClusterSpec_Both(args) ==
    LET base == <<Member(<<"cluster_name">>, Get(args, <<"clusterName">>)),
                  Member(<<"spark_version">>, Get(args, <<"sparkVersion">>)),
                  Member(<<"node_type_id">>, Get(args, <<"nodeTypeId">>))>>
        numWorkers == Get(args, <<"numWorkers">>)
        minWorkers == Get(args, <<"minWorkers">>)
        maxWorkers == Get(args, <<"maxWorkers">>)
        autoterminationMinutes == Get(args, <<"autoterminationMinutes">>)
        scaled == IF minWorkers # Undefined /\ maxWorkers # Undefined
                  THEN Put(base, <<"autoscale">>,
                           Obj(<<Member(<<"min_workers">>, minWorkers),
                                 Member(<<"max_workers">>, maxWorkers)>>))
                  ELSE base
        sized == IF numWorkers # Undefined
                 THEN Put(scaled, <<"num_workers">>, numWorkers)
                 ELSE scaled
    IN  Obj(IF autoterminationMinutes # Undefined
            THEN Put(sized, <<"autotermination_minutes">>, autoterminationMinutes)
            ELSE sized)

\* databricks_create_cluster: the spec its handler builds
CreateClusterSpec(args) ==
    LET base == <<Member(<<"cluster_name">>, Get(args, <<"clusterName">>)),
                  Member(<<"spark_version">>, Get(args, <<"sparkVersion">>)),
                  Member(<<"node_type_id">>, Get(args, <<"nodeTypeId">>))>>
        numWorkers == Get(args, <<"numWorkers">>)
        minWorkers == Get(args, <<"minWorkers">>)
        maxWorkers == Get(args, <<"maxWorkers">>)
        autoterminationMinutes == Get(args, <<"autoterminationMinutes">>)
        sized == IF minWorkers # Undefined /\ maxWorkers # Undefined
                 THEN Put(base, <<"autoscale">>,
                          Obj(<<Member(<<"min_workers">>, minWorkers),
                                Member(<<"max_workers">>, maxWorkers)>>))
                 ELSE IF numWorkers # Undefined
                 THEN Put(base, <<"num_workers">>, numWorkers)
                 ELSE base
    IN  Obj(IF autoterminationMinutes # Undefined
            THEN Put(sized, <<"autotermination_minutes">>, autoterminationMinutes)
            ELSE sized)

\* databricks_create_job: the settings its handler builds from parsed tasks
CreateJobSettings(args, parsedTasks) ==
    LET settings == <<Member(<<"name">>, Get(args, <<"name">>)),
                      Member(<<"tasks">>, parsedTasks)>>
        schedule == Get(args, <<"schedule">>)
    IN  Obj(IF Truthy(schedule)
            THEN Put(settings, <<"schedule">>,
                     Obj(<<Member(<<"quartz_cron_expression">>, schedule),
                           Member(<<"timezone_id">>,
                                  Or(Get(args, <<"timezone">>), Str(<<"UTC">>)))>>))
            ELSE settings)

\* a handler from its first line to the await of the client method it calls:
\* the error thrown on the way, or the method and the arguments of the call
HandlerCall(name, args) ==
    LET A(key) == Get(args, <<key>>)
        \* spec.key = value when the value is not undefined
        Set(spec, key, value) ==
            IF value # Undefined THEN Put(spec, <<key>>, value) ELSE spec
        \* { key, ... }: the arguments of these names
        picked(keys) == Obj([i \in DOMAIN keys |-> Member(<<keys[i]>>, A(keys[i]))])
        awaits(method, arguments) == Return([method |-> method, args |-> arguments])
    IN
    CASE name = "databricks_test_connection" -> awaits("testConnection", <<>>)
      \* clusters, DBFS, SQL statements and warehouses
      [] name = "databricks_list_clusters" -> awaits("listClusters", <<>>)
      [] name = "databricks_get_cluster" -> awaits("getCluster", <<A("clusterId")>>)
      [] name = "databricks_create_cluster" ->
            awaits("createCluster", <<CreateClusterSpec(args)>>)
      [] name = "databricks_start_cluster" -> awaits("startCluster", <<A("clusterId")>>)
      [] name = "databricks_restart_cluster" ->
            awaits("restartCluster", <<A("clusterId")>>)
      [] name = "databricks_terminate_cluster" ->
            awaits("terminateCluster", <<A("clusterId")>>)
      [] name = "databricks_delete_cluster" ->
            awaits("deleteCluster", <<A("clusterId")>>)
      [] name = "databricks_list_cluster_events" ->
            awaits("listClusterEvents", <<A("clusterId"), picked(<<"limit">>)>>)
      [] name = "databricks_pin_cluster" -> awaits("pinCluster", <<A("clusterId")>>)
      [] name = "databricks_unpin_cluster" -> awaits("unpinCluster", <<A("clusterId")>>)
      [] name = "databricks_list_dbfs" -> awaits("listDbfs", <<A("path")>>)
      [] name = "databricks_get_dbfs_status" -> awaits("getDbfsStatus", <<A("path")>>)
      [] name = "databricks_mkdirs_dbfs" -> awaits("mkdirsDbfs", <<A("path")>>)
      [] name = "databricks_delete_dbfs" ->
            awaits("deleteDbfs", <<A("path"), A("recursive")>>)
      [] name = "databricks_read_dbfs" ->
            awaits("readDbfs", <<A("path"), A("offset"), A("length")>>)
      [] name = "databricks_put_dbfs" ->
            awaits("putDbfs", <<A("path"), A("contents"), A("overwrite")>>)
      [] name = "databricks_move_dbfs" ->
            awaits("moveDbfs", <<A("sourcePath"), A("destinationPath")>>)
      [] name = "databricks_execute_sql" ->
            awaits("executeStatement", <<A("warehouseId"), A("statement"),
                                     picked(<<"catalog", "schema", "waitTimeout", "format">>)>>)
      [] name = "databricks_get_sql_status" ->
            awaits("getStatementStatus", <<A("statementId")>>)
      [] name = "databricks_get_sql_result_chunk" ->
            awaits("getStatementResultChunk", <<A("statementId"), A("chunkIndex")>>)
      [] name = "databricks_cancel_sql" ->
            awaits("cancelStatement", <<A("statementId")>>)
      [] name = "databricks_list_warehouses" -> awaits("listWarehouses", <<>>)
      [] name = "databricks_get_warehouse" ->
            awaits("getWarehouse", <<A("warehouseId")>>)
      [] name = "databricks_start_warehouse" ->
            awaits("startWarehouse", <<A("warehouseId")>>)
      [] name = "databricks_stop_warehouse" ->
            awaits("stopWarehouse", <<A("warehouseId")>>)
      \* repos and git credentials
      [] name = "databricks_list_repos" ->
            awaits("listRepos", <<Obj(<<Member(<<"pathPrefix">>, A("pathPrefix")),
                                Member(<<"nextPageToken">>, A("pageToken"))>>)>>)
      [] name = "databricks_get_repo" -> awaits("getRepo", <<A("repoId")>>)
      [] name = "databricks_create_repo" ->
            awaits("createRepo", <<A("url"), A("provider"), A("path")>>)
      [] name = "databricks_update_repo" ->
            awaits("updateRepo", <<A("repoId"), picked(<<"branch", "tag">>)>>)
      [] name = "databricks_delete_repo" -> awaits("deleteRepo", <<A("repoId")>>)
      [] name = "databricks_list_git_credentials" -> awaits("listGitCredentials", <<>>)
      [] name = "databricks_create_git_credential" ->
            awaits("createGitCredential", <<A("provider"), A("username"),
                                        A("personalAccessToken")>>)
      [] name = "databricks_delete_git_credential" ->
            awaits("deleteGitCredential", <<A("credentialId")>>)
      \* tokens
      [] name = "databricks_list_tokens" -> awaits("listTokens", <<>>)
      [] name = "databricks_create_token" ->
            awaits("createToken", <<A("comment"), A("lifetimeSeconds")>>)
      [] name = "databricks_revoke_token" -> awaits("revokeToken", <<A("tokenId")>>)
      \* Unity Catalog
      [] name = "databricks_list_catalogs" -> awaits("listCatalogs", <<>>)
      [] name = "databricks_get_catalog" -> awaits("getCatalog", <<A("name")>>)
      [] name = "databricks_create_catalog" ->
            awaits("createCatalog", <<A("name"), picked(<<"comment">>)>>)
      [] name = "databricks_delete_catalog" ->
            awaits("deleteCatalog", <<A("name"), A("force")>>)
      [] name = "databricks_list_schemas" -> awaits("listSchemas", <<A("catalogName")>>)
      [] name = "databricks_get_schema" -> awaits("getSchema", <<A("fullName")>>)
      [] name = "databricks_create_schema" ->
            awaits("createSchema", <<A("catalogName"), A("name"),
                                 picked(<<"comment">>)>>)
      [] name = "databricks_delete_schema" -> awaits("deleteSchema", <<A("fullName")>>)
      [] name = "databricks_list_tables" ->
            awaits("listTables", <<A("catalogName"), A("schemaName")>>)
      [] name = "databricks_get_table" -> awaits("getTable", <<A("fullName")>>)
      [] name = "databricks_delete_table" -> awaits("deleteTable", <<A("fullName")>>)
      [] name = "databricks_list_volumes" ->
            awaits("listVolumes", <<A("catalogName"), A("schemaName")>>)
      [] name = "databricks_get_volume" -> awaits("getVolume", <<A("fullName")>>)
      [] name = "databricks_create_volume" ->
            awaits("createVolume", <<A("catalogName"), A("schemaName"), A("name"),
                                 A("volumeType"),
                                 picked(<<"storageLocation", "comment">>)>>)
      [] name = "databricks_delete_volume" -> awaits("deleteVolume", <<A("fullName")>>)
      [] name = "databricks_list_functions" ->
            awaits("listFunctions", <<A("catalogName"), A("schemaName")>>)
      [] name = "databricks_get_function" -> awaits("getFunction", <<A("fullName")>>)
      \* workspace
      [] name = "databricks_list_workspace" -> awaits("listWorkspace", <<A("path")>>)
      [] name = "databricks_get_workspace_status" ->
            awaits("getWorkspaceStatus", <<A("path")>>)
      [] name = "databricks_mkdirs" -> awaits("mkdirs", <<A("path")>>)
      [] name = "databricks_delete_workspace" ->
            awaits("deleteWorkspace", <<A("path"), A("recursive")>>)
      [] name = "databricks_import_notebook" ->
            awaits("importWorkspace", <<A("path"), A("content"), A("format"),
                                    A("language"), A("overwrite")>>)
      [] name = "databricks_export_notebook" ->
            awaits("exportWorkspace", <<A("path"), A("format")>>)
      \* secrets
      [] name = "databricks_list_secret_scopes" -> awaits("listSecretScopes", <<>>)
      [] name = "databricks_create_secret_scope" ->
            awaits("createSecretScope", <<A("scope")>>)
      [] name = "databricks_delete_secret_scope" ->
            awaits("deleteSecretScope", <<A("scope")>>)
      [] name = "databricks_list_secrets" -> awaits("listSecrets", <<A("scope")>>)
      [] name = "databricks_put_secret" ->
            awaits("putSecret", <<A("scope"), A("key"), A("value")>>)
      [] name = "databricks_delete_secret" ->
            awaits("deleteSecret", <<A("scope"), A("key")>>)
      [] name = "databricks_list_secret_acls" ->
            awaits("listSecretAcls", <<A("scope")>>)
      [] name = "databricks_get_secret_acl" ->
            awaits("getSecretAcl", <<A("scope"), A("principal")>>)
      [] name = "databricks_put_secret_acl" ->
            awaits("putSecretAcl", <<A("scope"), A("principal"), A("permission")>>)
      [] name = "databricks_delete_secret_acl" ->
            awaits("deleteSecretAcl", <<A("scope"), A("principal")>>)
      \* pipelines and MLflow
      [] name = "databricks_list_pipelines" ->
            awaits("listPipelines", <<picked(<<"maxResults", "pageToken", "filter">>)>>)
      [] name = "databricks_get_pipeline" -> awaits("getPipeline", <<A("pipelineId")>>)
      [] name = "databricks_create_pipeline" ->
            LET parsedSpec == ParseArgument(A("spec"))
            IN  IF parsedSpec.t = "throw" THEN parsedSpec
                ELSE awaits("createPipeline",
                            <<Obj(SpreadValue(<<Member(<<"name">>, A("name"))>>,
                                              parsedSpec.value))>>)
      [] name = "databricks_update_pipeline" ->
            LET parsedSpec == ParseArgument(A("spec"))
            IN  IF parsedSpec.t = "throw" THEN parsedSpec
                ELSE awaits("updatePipeline", <<A("pipelineId"), parsedSpec.value>>)
      [] name = "databricks_delete_pipeline" ->
            awaits("deletePipeline", <<A("pipelineId")>>)
      [] name = "databricks_start_pipeline" ->
            awaits("startPipelineUpdate", <<A("pipelineId"),
                                        picked(<<"fullRefresh">>)>>)
      [] name = "databricks_stop_pipeline" ->
            awaits("stopPipeline", <<A("pipelineId")>>)
      [] name = "databricks_list_experiments" ->
            awaits("listExperiments", <<picked(<<"maxResults", "pageToken">>)>>)
      [] name = "databricks_get_experiment" ->
            awaits("getExperiment", <<A("experimentId")>>)
      [] name = "databricks_get_experiment_by_name" ->
            awaits("getExperimentByName", <<A("experimentName")>>)
      [] name = "databricks_create_experiment" ->
            awaits("createExperiment", <<A("name"), A("artifactLocation")>>)
      [] name = "databricks_delete_experiment" ->
            awaits("deleteExperiment", <<A("experimentId")>>)
      [] name = "databricks_restore_experiment" ->
            awaits("restoreExperiment", <<A("experimentId")>>)
      [] name = "databricks_search_runs" ->
            awaits("searchMlflowRuns", <<picked(<<"experimentIds", "filter", "maxResults", "orderBy", "pageToken">>)>>)
      [] name = "databricks_create_run" ->
            LET parsedTags == IF Truthy(A("tags")) THEN ParseArgument(A("tags"))
                              ELSE Return(Undefined)
            IN  IF parsedTags.t = "throw" THEN parsedTags
                ELSE awaits("createMlflowRun",
                            <<A("experimentId"),
                              Obj(<<Member(<<"runName">>, A("runName")),
                                    Member(<<"tags">>, parsedTags.value)>>)>>)
      [] name = "databricks_update_run" ->
            awaits("updateMlflowRun", <<A("runId"), A("status"), A("endTime")>>)
      [] name = "databricks_delete_run" -> awaits("deleteMlflowRun", <<A("runId")>>)
      [] name = "databricks_log_metric" ->
            awaits("logMetric", <<A("runId"), A("key"), A("value"), A("timestamp"),
                              A("step")>>)
      [] name = "databricks_log_param" ->
            awaits("logParam", <<A("runId"), A("key"), A("value")>>)
      [] name = "databricks_set_tag" ->
            awaits("setTag", <<A("runId"), A("key"), A("value")>>)
      [] name = "databricks_list_models" ->
            awaits("listRegisteredModels", <<picked(<<"maxResults", "pageToken">>)>>)
      [] name = "databricks_get_model" -> awaits("getRegisteredModel", <<A("name")>>)
      [] name = "databricks_create_model" ->
            LET parsedTags == IF Truthy(A("tags")) THEN ParseArgument(A("tags"))
                              ELSE Return(Undefined)
            IN  IF parsedTags.t = "throw" THEN parsedTags
                ELSE awaits("createRegisteredModel",
                            <<A("name"),
                              Obj(<<Member(<<"description">>, A("description")),
                                    Member(<<"tags">>, parsedTags.value)>>)>>)
      [] name = "databricks_delete_model" ->
            awaits("deleteRegisteredModel", <<A("name")>>)
      [] name = "databricks_list_model_versions" ->
            awaits("listModelVersions", <<A("name")>>)
      [] name = "databricks_get_model_version" ->
            awaits("getModelVersion", <<A("name"), A("version")>>)
      [] name = "databricks_delete_model_version" ->
            awaits("deleteModelVersion", <<A("name"), A("version")>>)
      \* jobs and instance pools
      [] name = "databricks_list_jobs" ->
            awaits("listJobs", <<picked(<<"limit", "offset", "name">>)>>)
      [] name = "databricks_get_job" -> awaits("getJob", <<A("jobId")>>)
      [] name = "databricks_create_job" ->
            LET parsedTasks == ParseArgument(A("tasks"))
            IN  IF parsedTasks.t = "throw" THEN parsedTasks
                ELSE awaits("createJob", <<CreateJobSettings(args, parsedTasks.value)>>)
      [] name = "databricks_update_job" ->
            LET parsedSettings == ParseArgument(A("settings"))
            IN  IF parsedSettings.t = "throw" THEN parsedSettings
                ELSE awaits("updateJob", <<A("jobId"), parsedSettings.value>>)
      [] name = "databricks_delete_job" -> awaits("deleteJob", <<A("jobId")>>)
      [] name = "databricks_run_job" ->
            LET params == IF Truthy(A("parameters")) THEN ParseArgument(A("parameters"))
                          ELSE Return(Undefined)
            IN  IF params.t = "throw" THEN params
                ELSE awaits("runJobNow", <<A("jobId"), params.value>>)
      [] name = "databricks_list_runs" ->
            awaits("listRuns", <<picked(<<"jobId", "activeOnly", "completedOnly", "limit", "offset">>)>>)
      [] name = "databricks_get_run" -> awaits("getRun", <<A("runId")>>)
      [] name = "databricks_get_run_output" -> awaits("getRunOutput", <<A("runId")>>)
      [] name = "databricks_cancel_run" -> awaits("cancelRun", <<A("runId")>>)
      [] name = "databricks_cancel_all_runs" -> awaits("cancelAllRuns", <<A("jobId")>>)
      [] name = "databricks_list_instance_pools" -> awaits("listInstancePools", <<>>)
      [] name = "databricks_get_instance_pool" ->
            awaits("getInstancePool", <<A("instancePoolId")>>)
      [] name = "databricks_create_instance_pool" ->
            awaits("createInstancePool", <<Obj(Set(Set(Set(<<Member(<<"instance_pool_name">>, A("instancePoolName")),
                                 Member(<<"node_type_id">>, A("nodeTypeId"))>>,
                               "min_idle_instances", A("minIdleInstances")),
                           "max_capacity", A("maxCapacity")),
                       "idle_instance_autotermination_minutes",
                       A("idleInstanceAutoterminationMinutes")))>>)
      [] name = "databricks_edit_instance_pool" ->
            awaits("editInstancePool", <<A("instancePoolId"),
                                     Obj(Set(Set(<<Member(<<"instance_pool_name">>, A("instancePoolName")),
                             Member(<<"node_type_id">>, A("nodeTypeId"))>>,
                           "min_idle_instances", A("minIdleInstances")),
                       "max_capacity", A("maxCapacity")))>>)
      [] name = "databricks_delete_instance_pool" ->
            awaits("deleteInstancePool", <<A("instancePoolId")>>)

\* the handler's catch
HandlerCatch(name, error) ==
    IF name = "databricks_test_connection"
    THEN Envelope(TRUE, Str(<<"Connection", "failed:">> \o error.message.s), Undefined)
    ELSE formatError(error)

\* the handler's code after the await, inside its try: `value` is what the
\* client method settled with. Each arm is the return statement of a handler:
\* the formatter it calls and what it calls it with
HandlerReturn(name, args, value) ==
    LET A(key) == Get(args, <<key>>)
        \* ${key} in a message
        T(key) == Word(ToStr(A(key)).value.s)
        asResponse(data) == [by |-> "formatResponse", message |-> Undefined, data |-> data]
        asSuccess(message, data) ==
            [by |-> "formatSuccess", message |-> message, data |-> data]
        \* JSON.stringify(result, null, 2) as the text of the content
        asText(data) == [by |-> "stringify", message |-> Undefined, data |-> data]
        \* a property of undefined or null is read: the catch of the handler
        asThrown(error) == [by |-> "catch", message |-> Undefined, data |-> error]
        \* the keys of the message of the handler, in its order
        templated ==
            CASE name \in {"databricks_start_cluster", "databricks_restart_cluster",
                           "databricks_terminate_cluster", "databricks_delete_cluster",
                           "databricks_pin_cluster", "databricks_unpin_cluster"} ->
                    <<"clusterId">>
              [] name \in {"databricks_mkdirs_dbfs", "databricks_delete_dbfs",
                           "databricks_put_dbfs", "databricks_mkdirs",
                           "databricks_delete_workspace", "databricks_import_notebook"} ->
                    <<"path">>
              [] name \in {"databricks_move_dbfs"} ->
                    <<"sourcePath", "destinationPath">>
              [] name \in {"databricks_cancel_sql"} ->
                    <<"statementId">>
              [] name \in {"databricks_start_warehouse", "databricks_stop_warehouse"} ->
                    <<"warehouseId">>
              [] name \in {"databricks_delete_repo"} ->
                    <<"repoId">>
              [] name \in {"databricks_delete_git_credential"} ->
                    <<"credentialId">>
              [] name \in {"databricks_revoke_token"} ->
                    <<"tokenId">>
              [] name \in {"databricks_delete_catalog", "databricks_delete_model"} ->
                    <<"name">>
              [] name \in {"databricks_delete_schema", "databricks_delete_table",
                           "databricks_delete_volume"} ->
                    <<"fullName">>
              [] name \in {"databricks_create_secret_scope",
                           "databricks_delete_secret_scope"} ->
                    <<"scope">>
              [] name \in {"databricks_put_secret", "databricks_delete_secret"} ->
                    <<"scope", "key">>
              [] name \in {"databricks_put_secret_acl"} ->
                    <<"permission", "principal", "scope">>
              [] name \in {"databricks_delete_secret_acl"} ->
                    <<"principal", "scope">>
              [] name \in {"databricks_update_pipeline", "databricks_delete_pipeline",
                           "databricks_stop_pipeline"} ->
                    <<"pipelineId">>
              [] name \in {"databricks_delete_experiment",
                           "databricks_restore_experiment"} ->
                    <<"experimentId">>
              [] name \in {"databricks_update_run"} ->
                    <<"runId", "status">>
              [] name \in {"databricks_delete_run", "databricks_cancel_run"} ->
                    <<"runId">>
              [] name \in {"databricks_log_metric", "databricks_log_param",
                           "databricks_set_tag"} ->
                    <<"key", "value", "runId">>
              [] name \in {"databricks_delete_model_version"} ->
                    <<"name", "version">>
              [] name \in {"databricks_update_job", "databricks_delete_job",
                           "databricks_cancel_all_runs"} ->
                    <<"jobId">>
              [] name \in {"databricks_edit_instance_pool",
                           "databricks_delete_instance_pool"} ->
                    <<"instancePoolId">>
              [] OTHER -> <<>>
        statement ==
            CASE name = "databricks_test_connection" ->
                    asText(value)
              \* clusters, DBFS, SQL statements and warehouses
              [] name = "databricks_list_clusters" ->
                    asResponse(Obj(<<Member(<<"clusters">>, value),
                                         Member(<<"count">>, LengthOf(value))>>))
              [] name = "databricks_get_cluster" -> asResponse(value)
              [] name = "databricks_create_cluster" ->
                    asSuccess(Str(<<"Cluster", "created">>), value)
              [] name = "databricks_start_cluster" ->
                    asSuccess(Str(<<"Cluster", T("clusterId"), "is", "starting">>),
                                  Undefined)
              [] name = "databricks_restart_cluster" ->
                    asSuccess(Str(<<"Cluster", T("clusterId"), "is", "restarting">>),
                                  Undefined)
              [] name = "databricks_terminate_cluster" ->
                    asSuccess(Str(<<"Cluster", T("clusterId"), "is", "terminating">>),
                                  Undefined)
              [] name = "databricks_delete_cluster" ->
                    asSuccess(Str(<<"Cluster", T("clusterId"), "permanently", "deleted">>),
                                  Undefined)
              [] name = "databricks_list_cluster_events" ->
                    asResponse(Obj(<<Member(<<"events">>, Get(value, <<"events">>)),
                                         Member(<<"count">>, LengthOf(Get(value, <<"events">>)))>>))
              [] name = "databricks_pin_cluster" ->
                    asSuccess(Str(<<"Cluster", T("clusterId"), "pinned">>), Undefined)
              [] name = "databricks_unpin_cluster" ->
                    asSuccess(Str(<<"Cluster", T("clusterId"), "unpinned">>),
                                  Undefined)
              [] name = "databricks_list_dbfs" ->
                    asResponse(Obj(<<Member(<<"files">>, value),
                                         Member(<<"count">>, LengthOf(value)),
                                         Member(<<"path">>, A("path"))>>))
              [] name = "databricks_get_dbfs_status" -> asResponse(value)
              [] name = "databricks_mkdirs_dbfs" ->
                    asSuccess(Str(<<"DBFS", "directory", "created:", T("path")>>),
                                  Undefined)
              [] name = "databricks_delete_dbfs" ->
                    asSuccess(Str(<<"DBFS", "deleted:", T("path")>>), Undefined)
              [] name = "databricks_read_dbfs" ->
                    asResponse(Obj(SpreadValue(<<Member(<<"path">>, A("path"))>>, value)))
              [] name = "databricks_put_dbfs" ->
                    asSuccess(Str(<<"File", "written", "to", "DBFS:", T("path")>>),
                                  Undefined)
              [] name = "databricks_move_dbfs" ->
                    asSuccess(Str(<<"Moved", T("sourcePath"), "to", T("destinationPath")>>),
                                  Undefined)
              [] name = "databricks_execute_sql" -> asResponse(value)
              [] name = "databricks_get_sql_status" -> asResponse(value)
              [] name = "databricks_get_sql_result_chunk" -> asResponse(value)
              [] name = "databricks_cancel_sql" ->
                    asSuccess(Str(<<"Statement", T("statementId"), "cancelled">>),
                                  Undefined)
              [] name = "databricks_list_warehouses" ->
                    asResponse(Obj(<<Member(<<"warehouses">>, value),
                                         Member(<<"count">>, LengthOf(value))>>))
              [] name = "databricks_get_warehouse" -> asResponse(value)
              [] name = "databricks_start_warehouse" ->
                    asSuccess(Str(<<"SQL", "warehouse", T("warehouseId"), "is", "starting">>),
                                  Undefined)
              [] name = "databricks_stop_warehouse" ->
                    asSuccess(Str(<<"SQL", "warehouse", T("warehouseId"), "is", "stopping">>),
                                  Undefined)
              \* repos and git credentials
              [] name = "databricks_list_repos" ->
                    asResponse(Obj(Put(SpreadValue(<<>>, value), <<"count">>,
                                           LengthOf(Get(value, <<"repos">>)))))
              [] name = "databricks_get_repo" -> asResponse(value)
              [] name = "databricks_create_repo" ->
                    asSuccess(Str(<<"Repo", "created">>), value)
              [] name = "databricks_update_repo" ->
                    asSuccess(Str(<<"Repo", "updated">>), value)
              [] name = "databricks_delete_repo" ->
                    asSuccess(Str(<<"Repo", T("repoId"), "deleted">>), Undefined)
              [] name = "databricks_list_git_credentials" ->
                    asResponse(Obj(<<Member(<<"credentials">>, value),
                                         Member(<<"count">>, LengthOf(value))>>))
              [] name = "databricks_create_git_credential" ->
                    asSuccess(Str(<<"Git", "credential", "created">>), value)
              [] name = "databricks_delete_git_credential" ->
                    asSuccess(Str(<<"Git", "credential", T("credentialId"), "deleted">>),
                                  Undefined)
              \* tokens
              [] name = "databricks_list_tokens" ->
                    asResponse(Obj(<<Member(<<"tokens">>, value),
                                         Member(<<"count">>, LengthOf(value))>>))
              [] name = "databricks_create_token" ->
                    asSuccess(Str(<<"Token", "created", "(save", "the", "token_value", "-", "it",
                                         "will", "not", "be", "shown", "again)">>),
                                  value)
              [] name = "databricks_revoke_token" ->
                    asSuccess(Str(<<"Token", T("tokenId"), "revoked">>), Undefined)
              \* Unity Catalog
              [] name = "databricks_list_catalogs" ->
                    asResponse(Obj(<<Member(<<"catalogs">>, value),
                                         Member(<<"count">>, LengthOf(value))>>))
              [] name = "databricks_get_catalog" -> asResponse(value)
              [] name = "databricks_create_catalog" ->
                    asSuccess(Str(<<"Catalog", "created">>), value)
              [] name = "databricks_delete_catalog" ->
                    asSuccess(Str(<<"Catalog", T("name"), "deleted">>), Undefined)
              [] name = "databricks_list_schemas" ->
                    asResponse(Obj(<<Member(<<"schemas">>, value),
                                         Member(<<"count">>, LengthOf(value)),
                                         Member(<<"catalog">>, A("catalogName"))>>))
              [] name = "databricks_get_schema" -> asResponse(value)
              [] name = "databricks_create_schema" ->
                    asSuccess(Str(<<"Schema", "created">>), value)
              [] name = "databricks_delete_schema" ->
                    asSuccess(Str(<<"Schema", T("fullName"), "deleted">>), Undefined)
              [] name = "databricks_list_tables" ->
                    asResponse(Obj(<<Member(<<"tables">>, value),
                                         Member(<<"count">>, LengthOf(value)),
                                         Member(<<"catalog">>, A("catalogName")),
                                         Member(<<"schema">>, A("schemaName"))>>))
              [] name = "databricks_get_table" -> asResponse(value)
              [] name = "databricks_delete_table" ->
                    asSuccess(Str(<<"Table", T("fullName"), "deleted">>), Undefined)
              [] name = "databricks_list_volumes" ->
                    asResponse(Obj(<<Member(<<"volumes">>, value),
                                         Member(<<"count">>, LengthOf(value)),
                                         Member(<<"catalog">>, A("catalogName")),
                                         Member(<<"schema">>, A("schemaName"))>>))
              [] name = "databricks_get_volume" -> asResponse(value)
              [] name = "databricks_create_volume" ->
                    asSuccess(Str(<<"Volume", "created">>), value)
              [] name = "databricks_delete_volume" ->
                    asSuccess(Str(<<"Volume", T("fullName"), "deleted">>), Undefined)
              [] name = "databricks_list_functions" ->
                    asResponse(Obj(<<Member(<<"functions">>, value),
                                         Member(<<"count">>, LengthOf(value)),
                                         Member(<<"catalog">>, A("catalogName")),
                                         Member(<<"schema">>, A("schemaName"))>>))
              [] name = "databricks_get_function" -> asResponse(value)
              \* workspace
              [] name = "databricks_list_workspace" ->
                    asResponse(Obj(<<Member(<<"objects">>, value),
                                         Member(<<"count">>, LengthOf(value)),
                                         Member(<<"path">>, A("path"))>>))
              [] name = "databricks_get_workspace_status" -> asResponse(value)
              [] name = "databricks_mkdirs" ->
                    asSuccess(Str(<<"Directory", "created:", T("path")>>), Undefined)
              [] name = "databricks_delete_workspace" ->
                    asSuccess(Str(<<"Deleted:", T("path")>>), Undefined)
              [] name = "databricks_import_notebook" ->
                    asSuccess(Str(<<"Notebook", "imported:", T("path")>>), Undefined)
              [] name = "databricks_export_notebook" ->
                    IF value.t \in {"undefined", "null"}
                    THEN asThrown(PropertyOfNothing(value, <<"content">>))
                    ELSE asResponse(Obj(<<Member(<<"path">>, A("path")),
                                              Member(<<"format">>, Or(A("format"), Str(<<"SOURCE">>))),
                                              Member(<<"content">>, Get(value, <<"content">>))>>))
              \* secrets
              [] name = "databricks_list_secret_scopes" ->
                    asResponse(Obj(<<Member(<<"scopes">>, value),
                                         Member(<<"count">>, LengthOf(value))>>))
              [] name = "databricks_create_secret_scope" ->
                    asSuccess(Str(<<"Secret", "scope", T("scope"), "created">>),
                                  Undefined)
              [] name = "databricks_delete_secret_scope" ->
                    asSuccess(Str(<<"Secret", "scope", T("scope"), "deleted">>),
                                  Undefined)
              [] name = "databricks_list_secrets" ->
                    asResponse(Obj(<<Member(<<"secrets">>, value),
                                         Member(<<"count">>, LengthOf(value)),
                                         Member(<<"scope">>, A("scope"))>>))
              [] name = "databricks_put_secret" ->
                    asSuccess(Str(<<"Secret", T("scope") \o "/" \o T("key"), "stored">>),
                                  Undefined)
              [] name = "databricks_delete_secret" ->
                    asSuccess(Str(<<"Secret", T("scope") \o "/" \o T("key"), "deleted">>),
                                  Undefined)
              [] name = "databricks_list_secret_acls" ->
                    asResponse(Obj(<<Member(<<"acls">>, value),
                                         Member(<<"count">>, LengthOf(value)),
                                         Member(<<"scope">>, A("scope"))>>))
              [] name = "databricks_get_secret_acl" -> asResponse(value)
              [] name = "databricks_put_secret_acl" ->
                    asSuccess(Str(<<"ACL", T("permission"), "granted", "to", T("principal"), "on",
                                         T("scope")>>), Undefined)
              [] name = "databricks_delete_secret_acl" ->
                    asSuccess(Str(<<"ACL", "for", T("principal"), "on", T("scope"), "deleted">>),
                                  Undefined)
              \* pipelines and MLflow
              [] name = "databricks_list_pipelines" ->
                    asResponse(Obj(<<Member(<<"pipelines">>, Get(value, <<"statuses">>)),
                                         Member(<<"count">>, LengthOf(Get(value, <<"statuses">>))),
                                         Member(<<"next_page_token">>,
                                                Get(value, <<"next_page_token">>))>>))
              [] name = "databricks_get_pipeline" -> asResponse(value)
              [] name = "databricks_create_pipeline" ->
                    asSuccess(Str(<<"Pipeline", "created">>), value)
              [] name = "databricks_update_pipeline" ->
                    asSuccess(Str(<<"Pipeline", T("pipelineId"), "updated">>),
                                  Undefined)
              [] name = "databricks_delete_pipeline" ->
                    asSuccess(Str(<<"Pipeline", T("pipelineId"), "deleted">>),
                                  Undefined)
              [] name = "databricks_start_pipeline" ->
                    asSuccess(Str(<<"Pipeline", "update", "started">>), value)
              [] name = "databricks_stop_pipeline" ->
                    asSuccess(Str(<<"Pipeline", T("pipelineId"), "stopping">>),
                                  Undefined)
              [] name = "databricks_list_experiments" ->
                    asResponse(Obj(Put(SpreadValue(<<>>, value), <<"count">>,
                                           LengthOf(Get(value, <<"experiments">>)))))
              [] name = "databricks_get_experiment" -> asResponse(value)
              [] name = "databricks_get_experiment_by_name" -> asResponse(value)
              [] name = "databricks_create_experiment" ->
                    asSuccess(Str(<<"Experiment", "created">>), value)
              [] name = "databricks_delete_experiment" ->
                    asSuccess(Str(<<"Experiment", T("experimentId"), "deleted">>),
                                  Undefined)
              [] name = "databricks_restore_experiment" ->
                    asSuccess(Str(<<"Experiment", T("experimentId"), "restored">>),
                                  Undefined)
              [] name = "databricks_search_runs" ->
                    asResponse(Obj(Put(SpreadValue(<<>>, value), <<"count">>,
                                           LengthOf(Get(value, <<"runs">>)))))
              [] name = "databricks_create_run" ->
                    asSuccess(Str(<<"Run", "created">>), value)
              [] name = "databricks_update_run" ->
                    asSuccess(Str(<<"Run", T("runId"), "updated", "to", T("status")>>),
                                  Undefined)
              [] name = "databricks_delete_run" ->
                    asSuccess(Str(<<"Run", T("runId"), "deleted">>), Undefined)
              [] name = "databricks_log_metric" ->
                    asSuccess(Str(<<"Metric", T("key") \o "=" \o T("value"), "logged", "to", "run",
                                         T("runId")>>), Undefined)
              [] name = "databricks_log_param" ->
                    asSuccess(Str(<<"Parameter", T("key") \o "=" \o T("value"), "logged", "to", "run",
                                         T("runId")>>), Undefined)
              [] name = "databricks_set_tag" ->
                    asSuccess(Str(<<"Tag", T("key") \o "=" \o T("value"), "set", "on", "run",
                                         T("runId")>>), Undefined)
              [] name = "databricks_list_models" ->
                    asResponse(Obj(Put(SpreadValue(<<>>, value), <<"count">>,
                                           LengthOf(Get(value, <<"registered_models">>)))))
              [] name = "databricks_get_model" -> asResponse(value)
              [] name = "databricks_create_model" ->
                    asSuccess(Str(<<"Model", "created">>), value)
              [] name = "databricks_delete_model" ->
                    asSuccess(Str(<<"Model", T("name"), "deleted">>), Undefined)
              [] name = "databricks_list_model_versions" ->
                    asResponse(Obj(<<Member(<<"versions">>, value),
                                         Member(<<"count">>, LengthOf(value)),
                                         Member(<<"model">>, A("name"))>>))
              [] name = "databricks_get_model_version" -> asResponse(value)
              [] name = "databricks_delete_model_version" ->
                    asSuccess(Str(<<"Model", T("name"), "version", T("version"), "deleted">>),
                                  Undefined)
              \* jobs and instance pools
              [] name = "databricks_list_jobs" ->
                    asResponse(Obj(Put(SpreadValue(<<>>, value), <<"count">>,
                                           LengthOf(Get(value, <<"jobs">>)))))
              [] name = "databricks_get_job" -> asResponse(value)
              [] name = "databricks_create_job" ->
                    asSuccess(Str(<<"Job", "created">>), value)
              [] name = "databricks_update_job" ->
                    asSuccess(Str(<<"Job", T("jobId"), "updated">>), Undefined)
              [] name = "databricks_delete_job" ->
                    asSuccess(Str(<<"Job", T("jobId"), "deleted">>), Undefined)
              [] name = "databricks_run_job" ->
                    asSuccess(Str(<<"Job", "run", "triggered">>), value)
              [] name = "databricks_list_runs" ->
                    asResponse(Obj(Put(SpreadValue(<<>>, value), <<"count">>,
                                           LengthOf(Get(value, <<"runs">>)))))
              [] name = "databricks_get_run" -> asResponse(value)
              [] name = "databricks_get_run_output" -> asResponse(value)
              [] name = "databricks_cancel_run" ->
                    asSuccess(Str(<<"Run", T("runId"), "cancelled">>), Undefined)
              [] name = "databricks_cancel_all_runs" ->
                    asSuccess(Str(<<"All", "runs", "of", "job", T("jobId"), "cancelled">>),
                                  Undefined)
              [] name = "databricks_list_instance_pools" ->
                    asResponse(Obj(<<Member(<<"instance_pools">>, value),
                                         Member(<<"count">>, LengthOf(value))>>))
              [] name = "databricks_get_instance_pool" -> asResponse(value)
              [] name = "databricks_create_instance_pool" ->
                    asSuccess(Str(<<"Instance", "pool", "created">>), value)
              [] name = "databricks_edit_instance_pool" ->
                    asSuccess(Str(<<"Instance", "pool", T("instancePoolId"), "updated">>),
                                  Undefined)
              [] name = "databricks_delete_instance_pool" ->
                    asSuccess(Str(<<"Instance", "pool", T("instancePoolId"), "deleted">>),
                                  Undefined)
        \* a key that does not convert throws in the template: the catch
        templates(rs) ==
            IF \E i \in DOMAIN rs : rs[i].t = "throw"
            THEN asThrown(rs[CHOOSE i \in DOMAIN rs :
                                /\ rs[i].t = "throw"
                                /\ \A j \in 1..(i - 1) : rs[j].t # "throw"].error)
            ELSE statement
        returned == templates([i \in DOMAIN templated |-> ToStr(A(templated[i]))])
        formatted(r) ==
            IF r.by = "formatResponse" THEN formatResponse(r.data)
            ELSE IF r.by = "formatSuccess" THEN formatSuccess(r.message, r.data)
            ELSE IF r.by = "stringify"
            THEN Envelope(FALSE, Undefined, Text(IndentValue(r.data, 0)))
            ELSE HandlerCatch(name, r.data)
    IN  formatted(returned)

\* the handler's promise rejects with what is thrown inside it: no catch
HandlerEnd_Rejects(name, args, settled) ==
    IF settled.t = "throw"
    THEN [t |-> "rejected", isError |-> TRUE, message |-> settled.error.message,
          data |-> Undefined]
    ELSE HandlerReturn(name, args, settled.value)

\* what the handler returns once the client method has settled, or once an
\* argument failed to parse
HandlerEnd(name, args, settled) ==
    IF settled.t = "throw" THEN HandlerCatch(name, settled.error)
    ELSE HandlerReturn(name, args, settled.value)

WithArg(m, k, v) == IF v = Undefined THEN m ELSE Append(m, Member(k, v))

ObjectText == Text(<<P("{"), S(<<"k">>), P(":"), N(1), P("}")>>)

NoJsonText == Text(<<W("oops")>>)

CutText == Text(<<P("{"), S(<<"k">>), P(":")>>)

EmptyText == Text(<<>>)

\* a tools/call message, and with it the client method its handler awaits
\* once the handler has called one
ToolCall(name, args) == [name |-> name, args |-> args, awaits |-> ""]

\* the tools/call messages: every registered tool with the arguments its
\* shape requires, then calls with optional arguments, with arguments a shape
\* refuses, with JSON strings that parse and that do not, and of names in the
\* README that no tool has
ToolCalls ==
    {ToolCall("databricks_test_connection", Obj(<<>>)),
     ToolCall("databricks_list_clusters", Obj(<<>>)),
     ToolCall("databricks_get_cluster",
              Obj(<<Member(<<"clusterId">>, Str(<<"c", "1">>))>>)),
     ToolCall("databricks_create_cluster",
              Obj(<<Member(<<"clusterName">>, Str(<<"c", "1">>)),
                    Member(<<"sparkVersion">>, Str(<<"s", "1">>)),
                    Member(<<"nodeTypeId">>, Str(<<"n", "1">>))>>)),
     ToolCall("databricks_start_cluster",
              Obj(<<Member(<<"clusterId">>, Str(<<"c", "1">>))>>)),
     ToolCall("databricks_restart_cluster",
              Obj(<<Member(<<"clusterId">>, Str(<<"c", "1">>))>>)),
     ToolCall("databricks_terminate_cluster",
              Obj(<<Member(<<"clusterId">>, Str(<<"c", "1">>))>>)),
     ToolCall("databricks_delete_cluster",
              Obj(<<Member(<<"clusterId">>, Str(<<"c", "1">>))>>)),
     ToolCall("databricks_list_cluster_events",
              Obj(<<Member(<<"clusterId">>, Str(<<"c", "1">>))>>)),
     ToolCall("databricks_pin_cluster",
              Obj(<<Member(<<"clusterId">>, Str(<<"c", "1">>))>>)),
     ToolCall("databricks_unpin_cluster",
              Obj(<<Member(<<"clusterId">>, Str(<<"c", "1">>))>>)),
     ToolCall("databricks_list_dbfs", Obj(<<Member(<<"path">>, Str(<<"/", "p">>))>>)),
     ToolCall("databricks_get_dbfs_status",
              Obj(<<Member(<<"path">>, Str(<<"/", "p">>))>>)),
     ToolCall("databricks_mkdirs_dbfs", Obj(<<Member(<<"path">>, Str(<<"/", "p">>))>>)),
     ToolCall("databricks_delete_dbfs", Obj(<<Member(<<"path">>, Str(<<"/", "p">>))>>)),
     ToolCall("databricks_read_dbfs", Obj(<<Member(<<"path">>, Str(<<"/", "p">>))>>)),
     ToolCall("databricks_put_dbfs",
              Obj(<<Member(<<"path">>, Str(<<"/", "p">>)),
                    Member(<<"contents">>, Str(<<"c", "1">>))>>)),
     ToolCall("databricks_move_dbfs",
              Obj(<<Member(<<"sourcePath">>, Str(<<"/", "s">>)),
                    Member(<<"destinationPath">>, Str(<<"/", "d">>))>>)),
     ToolCall("databricks_execute_sql",
              Obj(<<Member(<<"warehouseId">>, Str(<<"w", "1">>)),
                    Member(<<"statement">>, Str(<<"s", "1">>))>>)),
     ToolCall("databricks_get_sql_status",
              Obj(<<Member(<<"statementId">>, Str(<<"s", "1">>))>>)),
     ToolCall("databricks_get_sql_result_chunk",
              Obj(<<Member(<<"statementId">>, Str(<<"s", "1">>)),
                    Member(<<"chunkIndex">>, Num(7))>>)),
     ToolCall("databricks_cancel_sql",
              Obj(<<Member(<<"statementId">>, Str(<<"s", "1">>))>>)),
     ToolCall("databricks_list_warehouses", Obj(<<>>)),
     ToolCall("databricks_get_warehouse",
              Obj(<<Member(<<"warehouseId">>, Str(<<"w", "1">>))>>)),
     ToolCall("databricks_start_warehouse",
              Obj(<<Member(<<"warehouseId">>, Str(<<"w", "1">>))>>)),
     ToolCall("databricks_stop_warehouse",
              Obj(<<Member(<<"warehouseId">>, Str(<<"w", "1">>))>>)),
     ToolCall("databricks_list_repos", Obj(<<>>)),
     ToolCall("databricks_get_repo", Obj(<<Member(<<"repoId">>, Num(7))>>)),
     ToolCall("databricks_create_repo",
              Obj(<<Member(<<"url">>, Str(<<"u", "1">>)),
                    Member(<<"provider">>, Str(<<"p", "1">>))>>)),
     ToolCall("databricks_update_repo", Obj(<<Member(<<"repoId">>, Num(7))>>)),
     ToolCall("databricks_delete_repo", Obj(<<Member(<<"repoId">>, Num(7))>>)),
     ToolCall("databricks_list_git_credentials", Obj(<<>>)),
     ToolCall("databricks_create_git_credential",
              Obj(<<Member(<<"provider">>, Str(<<"p", "1">>)),
                    Member(<<"username">>, Str(<<"u", "1">>)),
                    Member(<<"personalAccessToken">>, Str(<<"p", "1">>))>>)),
     ToolCall("databricks_delete_git_credential",
              Obj(<<Member(<<"credentialId">>, Num(7))>>)),
     ToolCall("databricks_list_tokens", Obj(<<>>)),
     ToolCall("databricks_create_token", Obj(<<>>)),
     ToolCall("databricks_revoke_token",
              Obj(<<Member(<<"tokenId">>, Str(<<"t", "1">>))>>)),
     ToolCall("databricks_list_catalogs", Obj(<<>>)),
     ToolCall("databricks_get_catalog", Obj(<<Member(<<"name">>, Str(<<"n", "1">>))>>)),
     ToolCall("databricks_create_catalog",
              Obj(<<Member(<<"name">>, Str(<<"n", "1">>))>>)),
     ToolCall("databricks_delete_catalog",
              Obj(<<Member(<<"name">>, Str(<<"n", "1">>))>>)),
     ToolCall("databricks_list_schemas",
              Obj(<<Member(<<"catalogName">>, Str(<<"c", "1">>))>>)),
     ToolCall("databricks_get_schema",
              Obj(<<Member(<<"fullName">>, Str(<<"c", ".", "s", ".", "t">>))>>)),
     ToolCall("databricks_create_schema",
              Obj(<<Member(<<"catalogName">>, Str(<<"c", "1">>)),
                    Member(<<"name">>, Str(<<"n", "1">>))>>)),
     ToolCall("databricks_delete_schema",
              Obj(<<Member(<<"fullName">>, Str(<<"c", ".", "s", ".", "t">>))>>)),
     ToolCall("databricks_list_tables",
              Obj(<<Member(<<"catalogName">>, Str(<<"c", "1">>)),
                    Member(<<"schemaName">>, Str(<<"s", "1">>))>>)),
     ToolCall("databricks_get_table",
              Obj(<<Member(<<"fullName">>, Str(<<"c", ".", "s", ".", "t">>))>>)),
     ToolCall("databricks_delete_table",
              Obj(<<Member(<<"fullName">>, Str(<<"c", ".", "s", ".", "t">>))>>)),
     ToolCall("databricks_list_volumes",
              Obj(<<Member(<<"catalogName">>, Str(<<"c", "1">>)),
                    Member(<<"schemaName">>, Str(<<"s", "1">>))>>)),
     ToolCall("databricks_get_volume",
              Obj(<<Member(<<"fullName">>, Str(<<"c", ".", "s", ".", "t">>))>>)),
     ToolCall("databricks_create_volume",
              Obj(<<Member(<<"catalogName">>, Str(<<"c", "1">>)),
                    Member(<<"schemaName">>, Str(<<"s", "1">>)),
                    Member(<<"name">>, Str(<<"n", "1">>)),
                    Member(<<"volumeType">>, Str(<<"MANAGED">>))>>)),
     ToolCall("databricks_delete_volume",
              Obj(<<Member(<<"fullName">>, Str(<<"c", ".", "s", ".", "t">>))>>)),
     ToolCall("databricks_list_functions",
              Obj(<<Member(<<"catalogName">>, Str(<<"c", "1">>)),
                    Member(<<"schemaName">>, Str(<<"s", "1">>))>>)),
     ToolCall("databricks_get_function",
              Obj(<<Member(<<"fullName">>, Str(<<"c", ".", "s", ".", "t">>))>>)),
     ToolCall("databricks_list_workspace",
              Obj(<<Member(<<"path">>, Str(<<"/", "p">>))>>)),
     ToolCall("databricks_get_workspace_status",
              Obj(<<Member(<<"path">>, Str(<<"/", "p">>))>>)),
     ToolCall("databricks_mkdirs", Obj(<<Member(<<"path">>, Str(<<"/", "p">>))>>)),
     ToolCall("databricks_delete_workspace",
              Obj(<<Member(<<"path">>, Str(<<"/", "p">>))>>)),
     ToolCall("databricks_import_notebook",
              Obj(<<Member(<<"path">>, Str(<<"/", "p">>)),
                    Member(<<"content">>, Str(<<"c", "1">>)),
                    Member(<<"format">>, Str(<<"SOURCE">>))>>)),
     ToolCall("databricks_export_notebook",
              Obj(<<Member(<<"path">>, Str(<<"/", "p">>))>>)),
     ToolCall("databricks_list_secret_scopes", Obj(<<>>)),
     ToolCall("databricks_create_secret_scope",
              Obj(<<Member(<<"scope">>, Str(<<"s", "1">>))>>)),
     ToolCall("databricks_delete_secret_scope",
              Obj(<<Member(<<"scope">>, Str(<<"s", "1">>))>>)),
     ToolCall("databricks_list_secrets",
              Obj(<<Member(<<"scope">>, Str(<<"s", "1">>))>>)),
     ToolCall("databricks_put_secret",
              Obj(<<Member(<<"scope">>, Str(<<"s", "1">>)),
                    Member(<<"key">>, Str(<<"k", "1">>)),
                    Member(<<"value">>, Str(<<"v", "1">>))>>)),
     ToolCall("databricks_delete_secret",
              Obj(<<Member(<<"scope">>, Str(<<"s", "1">>)),
                    Member(<<"key">>, Str(<<"k", "1">>))>>)),
     ToolCall("databricks_list_secret_acls",
              Obj(<<Member(<<"scope">>, Str(<<"s", "1">>))>>)),
     ToolCall("databricks_get_secret_acl",
              Obj(<<Member(<<"scope">>, Str(<<"s", "1">>)),
                    Member(<<"principal">>, Str(<<"p", "1">>))>>)),
     ToolCall("databricks_put_secret_acl",
              Obj(<<Member(<<"scope">>, Str(<<"s", "1">>)),
                    Member(<<"principal">>, Str(<<"p", "1">>)),
                    Member(<<"permission">>, Str(<<"READ">>))>>)),
     ToolCall("databricks_delete_secret_acl",
              Obj(<<Member(<<"scope">>, Str(<<"s", "1">>)),
                    Member(<<"principal">>, Str(<<"p", "1">>))>>)),
     ToolCall("databricks_list_pipelines", Obj(<<>>)),
     ToolCall("databricks_get_pipeline",
              Obj(<<Member(<<"pipelineId">>, Str(<<"p", "1">>))>>)),
     ToolCall("databricks_create_pipeline",
              Obj(<<Member(<<"name">>, Str(<<"n", "1">>)),
                    Member(<<"spec">>, ObjectText)>>)),
     ToolCall("databricks_update_pipeline",
              Obj(<<Member(<<"pipelineId">>, Str(<<"p", "1">>)),
                    Member(<<"spec">>, ObjectText)>>)),
     ToolCall("databricks_delete_pipeline",
              Obj(<<Member(<<"pipelineId">>, Str(<<"p", "1">>))>>)),
     ToolCall("databricks_start_pipeline",
              Obj(<<Member(<<"pipelineId">>, Str(<<"p", "1">>))>>)),
     ToolCall("databricks_stop_pipeline",
              Obj(<<Member(<<"pipelineId">>, Str(<<"p", "1">>))>>)),
     ToolCall("databricks_list_experiments", Obj(<<>>)),
     ToolCall("databricks_get_experiment",
              Obj(<<Member(<<"experimentId">>, Str(<<"e", "1">>))>>)),
     ToolCall("databricks_get_experiment_by_name",
              Obj(<<Member(<<"experimentName">>, Str(<<"e", "1">>))>>)),
     ToolCall("databricks_create_experiment",
              Obj(<<Member(<<"name">>, Str(<<"n", "1">>))>>)),
     ToolCall("databricks_delete_experiment",
              Obj(<<Member(<<"experimentId">>, Str(<<"e", "1">>))>>)),
     ToolCall("databricks_restore_experiment",
              Obj(<<Member(<<"experimentId">>, Str(<<"e", "1">>))>>)),
     ToolCall("databricks_search_runs",
              Obj(<<Member(<<"experimentIds">>, Arr(<<Str(<<"e", "1">>)>>))>>)),
     ToolCall("databricks_create_run",
              Obj(<<Member(<<"experimentId">>, Str(<<"e", "1">>))>>)),
     ToolCall("databricks_update_run",
              Obj(<<Member(<<"runId">>, Str(<<"r", "1">>)),
                    Member(<<"status">>, Str(<<"RUNNING">>))>>)),
     ToolCall("databricks_delete_run", Obj(<<Member(<<"runId">>, Str(<<"r", "1">>))>>)),
     ToolCall("databricks_log_metric",
              Obj(<<Member(<<"runId">>, Str(<<"r", "1">>)),
                    Member(<<"key">>, Str(<<"k", "1">>)),
                    Member(<<"value">>, Num(3))>>)),
     ToolCall("databricks_log_param",
              Obj(<<Member(<<"runId">>, Str(<<"r", "1">>)),
                    Member(<<"key">>, Str(<<"k", "1">>)),
                    Member(<<"value">>, Str(<<"v", "1">>))>>)),
     ToolCall("databricks_set_tag",
              Obj(<<Member(<<"runId">>, Str(<<"r", "1">>)),
                    Member(<<"key">>, Str(<<"k", "1">>)),
                    Member(<<"value">>, Str(<<"v", "1">>))>>)),
     ToolCall("databricks_list_models", Obj(<<>>)),
     ToolCall("databricks_get_model", Obj(<<Member(<<"name">>, Str(<<"n", "1">>))>>)),
     ToolCall("databricks_create_model", Obj(<<Member(<<"name">>, Str(<<"n", "1">>))>>)),
     ToolCall("databricks_delete_model", Obj(<<Member(<<"name">>, Str(<<"n", "1">>))>>)),
     ToolCall("databricks_list_model_versions",
              Obj(<<Member(<<"name">>, Str(<<"n", "1">>))>>)),
     ToolCall("databricks_get_model_version",
              Obj(<<Member(<<"name">>, Str(<<"n", "1">>)),
                    Member(<<"version">>, Str(<<"v", "1">>))>>)),
     ToolCall("databricks_delete_model_version",
              Obj(<<Member(<<"name">>, Str(<<"n", "1">>)),
                    Member(<<"version">>, Str(<<"v", "1">>))>>)),
     ToolCall("databricks_list_jobs", Obj(<<>>)),
     ToolCall("databricks_get_job", Obj(<<Member(<<"jobId">>, Num(7))>>)),
     ToolCall("databricks_create_job",
              Obj(<<Member(<<"name">>, Str(<<"n", "1">>)),
                    Member(<<"tasks">>, ObjectText)>>)),
     ToolCall("databricks_update_job",
              Obj(<<Member(<<"jobId">>, Num(7)),
                    Member(<<"settings">>, ObjectText)>>)),
     ToolCall("databricks_delete_job", Obj(<<Member(<<"jobId">>, Num(7))>>)),
     ToolCall("databricks_run_job", Obj(<<Member(<<"jobId">>, Num(7))>>)),
     ToolCall("databricks_list_runs", Obj(<<>>)),
     ToolCall("databricks_get_run", Obj(<<Member(<<"runId">>, Num(7))>>)),
     ToolCall("databricks_get_run_output", Obj(<<Member(<<"runId">>, Num(7))>>)),
     ToolCall("databricks_cancel_run", Obj(<<Member(<<"runId">>, Num(7))>>)),
     ToolCall("databricks_cancel_all_runs", Obj(<<Member(<<"jobId">>, Num(7))>>)),
     ToolCall("databricks_list_instance_pools", Obj(<<>>)),
     ToolCall("databricks_get_instance_pool",
              Obj(<<Member(<<"instancePoolId">>, Str(<<"i", "1">>))>>)),
     ToolCall("databricks_create_instance_pool",
              Obj(<<Member(<<"instancePoolName">>, Str(<<"i", "1">>)),
                    Member(<<"nodeTypeId">>, Str(<<"n", "1">>))>>)),
     ToolCall("databricks_edit_instance_pool",
              Obj(<<Member(<<"instancePoolId">>, Str(<<"i", "1">>)),
                    Member(<<"instancePoolName">>, Str(<<"i", "1">>)),
                    Member(<<"nodeTypeId">>, Str(<<"n", "1">>))>>)),
     ToolCall("databricks_delete_instance_pool",
              Obj(<<Member(<<"instancePoolId">>, Str(<<"i", "1">>))>>))}
    \cup
    \* optional arguments
    {ToolCall("databricks_list_cluster_events",
              Obj(<<Member(<<"clusterId">>, Str(<<"c", "1">>)),
                    Member(<<"limit">>, Num(500))>>)),
     ToolCall("databricks_delete_dbfs",
              Obj(<<Member(<<"path">>, Str(<<"/", "p">>)),
                    Member(<<"recursive">>, Bool(TRUE))>>)),
     ToolCall("databricks_read_dbfs",
              Obj(<<Member(<<"path">>, Str(<<"/", "a", " ", "b">>)),
                    Member(<<"offset">>, Num(0)),
                    Member(<<"length">>, Num(16))>>)),
     ToolCall("databricks_put_dbfs",
              Obj(<<Member(<<"path">>, Str(<<"/", "p">>)),
                    Member(<<"contents">>, Str(<<>>)),
                    Member(<<"overwrite">>, Bool(TRUE))>>)),
     \* disposition is no key of the shape
     ToolCall("databricks_execute_sql",
              Obj(<<Member(<<"warehouseId">>, Str(<<"w2">>)),
                    Member(<<"statement">>, Str(<<"SELECT", "1">>)),
                    Member(<<"catalog">>, Str(<<"main">>)),
                    Member(<<"format">>, Str(<<"CSV">>)),
                    Member(<<"disposition">>, Str(<<"EXTERNAL_LINKS">>))>>)),
     ToolCall("databricks_list_repos",
              Obj(<<Member(<<"pathPrefix">>, Str(<<"/", "R", "e", "p", "o", "s">>)),
                    Member(<<"pageToken">>, Str(<<"a", "=", "b">>))>>)),
     ToolCall("databricks_create_repo",
              Obj(<<Member(<<"url">>, Str(<<"u", "1">>)),
                    Member(<<"provider">>, Str(<<"p", "1">>)),
                    Member(<<"path">>, Str(<<"/", "p">>))>>)),
     ToolCall("databricks_update_repo",
              Obj(<<Member(<<"repoId">>, Num(7)),
                    Member(<<"branch">>, Str(<<"m", "a", "i", "n">>))>>)),
     ToolCall("databricks_create_token",
              Obj(<<Member(<<"comment">>, Str(<<"c", "1">>)),
                    Member(<<"lifetimeSeconds">>, Num(60))>>)),
     ToolCall("databricks_create_catalog",
              Obj(<<Member(<<"name">>, Str(<<"n", "1">>)),
                    Member(<<"comment">>, Str(<<"c", "1">>))>>)),
     ToolCall("databricks_delete_catalog",
              Obj(<<Member(<<"name">>, Str(<<"n", " ", "1">>)),
                    Member(<<"force">>, Bool(TRUE))>>)),
     ToolCall("databricks_create_schema",
              Obj(<<Member(<<"catalogName">>, Str(<<"c", "1">>)),
                    Member(<<"name">>, Str(<<"n", "1">>)),
                    Member(<<"comment">>, Str(<<>>))>>)),
     ToolCall("databricks_create_volume",
              Obj(<<Member(<<"catalogName">>, Str(<<"c", "1">>)),
                    Member(<<"schemaName">>, Str(<<"s", "1">>)),
                    Member(<<"name">>, Str(<<"n", "1">>)),
                    Member(<<"volumeType">>, Str(<<"EXTERNAL">>)),
                    Member(<<"storageLocation">>, Str(<<"s", "3">>))>>)),
     ToolCall("databricks_delete_workspace",
              Obj(<<Member(<<"path">>, Str(<<"/", "p">>)),
                    Member(<<"recursive">>, Bool(FALSE))>>)),
     ToolCall("databricks_import_notebook",
              Obj(<<Member(<<"path">>, Str(<<"/", "p">>)),
                    Member(<<"content">>, Str(<<"c", "1">>)),
                    Member(<<"format">>, Str(<<"SOURCE">>)),
                    Member(<<"language">>, Str(<<"PYTHON">>)),
                    Member(<<"overwrite">>, Bool(TRUE))>>)),
     ToolCall("databricks_export_notebook",
              Obj(<<Member(<<"path">>, Str(<<"/", "p", "?", "q">>)),
                    Member(<<"format">>, Str(<<"JUPYTER">>))>>)),
     ToolCall("databricks_list_pipelines",
              Obj(<<Member(<<"maxResults">>, Num(100)),
                    Member(<<"pageToken">>, Str(<<"t", "1">>)),
                    Member(<<"filter">>,
                           Str(<<"n", "a", "m", "e", " ", "=", " ", "'", "p", "'">>))>>)),
     ToolCall("databricks_start_pipeline",
              Obj(<<Member(<<"pipelineId">>, Str(<<"p", "1">>)),
                    Member(<<"fullRefresh">>, Bool(TRUE))>>)),
     ToolCall("databricks_list_experiments",
              Obj(<<Member(<<"maxResults">>, Num(10))>>)),
     ToolCall("databricks_create_experiment",
              Obj(<<Member(<<"name">>, Str(<<"n", "1">>)),
                    Member(<<"artifactLocation">>, Str(<<"a", "1">>))>>)),
     ToolCall("databricks_search_runs",
              Obj(<<Member(<<"experimentIds">>, Arr(<<Str(<<"e", "1">>), Str(<<"e", "2">>)>>)),
                    Member(<<"filter">>, Str(<<"f", "1">>)),
                    Member(<<"maxResults">>, Num(50000)),
                    Member(<<"orderBy">>, Arr(<<>>)),
                    Member(<<"pageToken">>, Str(<<"t", "1">>))>>)),
     ToolCall("databricks_update_run",
              Obj(<<Member(<<"runId">>, Str(<<"r", "1">>)),
                    Member(<<"status">>, Str(<<"FINISHED">>)),
                    Member(<<"endTime">>, Num(1800))>>)),
     ToolCall("databricks_list_models",
              Obj(<<Member(<<"pageToken">>, Str(<<"t", "~", "1">>))>>)),
     ToolCall("databricks_list_jobs",
              Obj(<<Member(<<"limit">>, Num(25)),
                    Member(<<"offset">>, Num(0)),
                    Member(<<"name">>, Str(<<"a", " ", "b", "&", "c">>))>>)),
     ToolCall("databricks_list_runs",
              Obj(<<Member(<<"jobId">>, Num(7)),
                    Member(<<"activeOnly">>, Bool(TRUE)),
                    Member(<<"completedOnly">>, Bool(FALSE)),
                    Member(<<"limit">>, Num(100)),
                    Member(<<"offset">>, Num(20))>>)),
     ToolCall("databricks_create_instance_pool",
              Obj(<<Member(<<"instancePoolName">>, Str(<<"i", "1">>)),
                    Member(<<"nodeTypeId">>, Str(<<"n", "1">>)),
                    Member(<<"minIdleInstances">>, Num(0)),
                    Member(<<"maxCapacity">>, Num(4)),
                    Member(<<"idleInstanceAutoterminationMinutes">>, Num(0))>>)),
     ToolCall("databricks_edit_instance_pool",
              Obj(<<Member(<<"instancePoolId">>, Str(<<"i", "1">>)),
                    Member(<<"instancePoolName">>, Str(<<"i", "2">>)),
                    Member(<<"nodeTypeId">>, Str(<<"n", "1">>)),
                    Member(<<"maxCapacity">>, Num(4))>>)),
     \* arguments the shape refuses: one that is missing, a string for an
     \* integer, an integer below its minimum, a value outside an enum, a string
     \* for an array, null for an optional string
     ToolCall("databricks_get_sql_status", Obj(<<>>)),
     ToolCall("databricks_get_run", Obj(<<Member(<<"runId">>, Str(<<"7">>))>>)),
     ToolCall("databricks_list_jobs", Obj(<<Member(<<"limit">>, Num(0))>>)),
     ToolCall("databricks_put_secret_acl",
              Obj(<<Member(<<"scope">>, Str(<<"s", "1">>)),
                    Member(<<"principal">>, Str(<<"p", "1">>)),
                    Member(<<"permission">>, Str(<<"OWNER">>))>>)),
     ToolCall("databricks_search_runs",
              Obj(<<Member(<<"experimentIds">>, Str(<<"e", "1">>))>>)),
     ToolCall("databricks_create_catalog",
              Obj(<<Member(<<"name">>, Str(<<"n", "1">>)), Member(<<"comment">>, Null)>>)),
     \* a scope whose characters are escaped in the path
     ToolCall("databricks_list_secret_acls",
              Obj(<<Member(<<"scope">>, Str(<<"s", "/", "&", "é">>))>>))}
    \cup {ToolCall("databricks_execute_sql",
                   Obj(WithArg(<<Member(<<"statement">>, Str(<<"SELECT", "1">>))>>,
                               <<"warehouseId">>, w))) :
            w \in {Undefined, Str(<<"w2">>)}}
    \cup {ToolCall("databricks_create_cluster",
                   Obj(WithArg(WithArg(WithArg(WithArg(
                           <<Member(<<"clusterName">>, Str(<<"c">>)),
                             Member(<<"sparkVersion">>, Str(<<"13.3.x-scala2.12">>)),
                             Member(<<"nodeTypeId">>, Str(<<"i3.xlarge">>))>>,
                           <<"numWorkers">>, n), <<"minWorkers">>, lo),
                           <<"maxWorkers">>, hi), <<"autoterminationMinutes">>, a))) :
            n \in {Undefined, Num(0)}, lo \in {Undefined, Num(0)},
            hi \in {Undefined, Num(4)}, a \in {Undefined, Num(0)}}
    \cup {ToolCall("databricks_create_job",
                   Obj(WithArg(WithArg(<<Member(<<"name">>, Str(<<"j">>)),
                                         Member(<<"tasks">>, text)>>,
                                       <<"schedule">>, s), <<"timezone">>, z))) :
            text \in {Text(<<P("["), P("{"), S(<<"task_key">>), P(":"), S(<<"t">>),
                             P("}"), P("]")>>),
                      NoJsonText, EmptyText},
            s \in {Undefined, Str(<<"0 0 * * * ?">>)},
            z \in {Undefined, Str(<<"Europe/Paris">>)}}
    \cup {ToolCall("databricks_update_job",
                   Obj(<<Member(<<"jobId">>, Num(7)), Member(<<"settings">>, text)>>)) :
            text \in {ObjectText, CutText}}
    \cup {ToolCall("databricks_run_job",
                   Obj(WithArg(<<Member(<<"jobId">>, Num(7))>>, <<"parameters">>, text))) :
            \* the last one is the JSON text of the string "ab"
            text \in {ObjectText, NoJsonText, EmptyText, Undefined,
                      Text(<<S(<<"a", "b">>)>>)}}
    \cup {ToolCall("databricks_create_pipeline",
                   Obj(<<Member(<<"name">>, Str(<<"p">>)), Member(<<"spec">>, text)>>)) :
            text \in {ObjectText, NoJsonText, EmptyText}}
    \cup {ToolCall("databricks_update_pipeline",
                   Obj(<<Member(<<"pipelineId">>, Str(<<"p1">>)),
                         Member(<<"spec">>, text)>>)) :
            \* the texts 1e999, -1e999, null and {}
            text \in {ObjectText, CutText, Text(<<Big(<<"1e999">>)>>),
                      Text(<<Big(<<"-", "1e999">>)>>), Text(<<W("null")>>),
                      Text(<<P("{"), P("}")>>)}}
    \cup {ToolCall("databricks_create_run",
                   Obj(WithArg(WithArg(<<Member(<<"experimentId">>, Str(<<"e", "1">>))>>,
                                       <<"runName">>, r), <<"tags">>, text))) :
            r \in {Undefined, Str(<<"r", "1">>)},
            text \in {ObjectText, NoJsonText, EmptyText, Undefined}}
    \cup {ToolCall("databricks_create_model",
                   Obj(WithArg(<<Member(<<"name">>, Str(<<"m", "1">>))>>,
                               <<"tags">>, text))) :
            text \in {ObjectText, CutText, EmptyText, Undefined}}
    \cup {ToolCall("databricks_log_metric",
                   Obj(WithArg(WithArg(<<Member(<<"runId">>, Str(<<"r", "1">>)),
                                         Member(<<"key">>, Str(<<"k", "1">>)),
                                         Member(<<"value">>, Num(3))>>,
                                       <<"timestamp">>, t), <<"step">>, s))) :
            t \in {Undefined, Num(0), Num(1600)}, s \in {Undefined, Num(0)}}
    \* 1e999 and -1e999 in the JSON of the call
    \cup {ToolCall("databricks_log_metric",
                   Obj(<<Member(<<"runId">>, Str(<<"r", "1">>)),
                         Member(<<"key">>, Str(<<"k", "1">>)),
                         Member(<<"value">>, v)>>)) :
            v \in {Infinity, NegativeInfinity}}
    \cup {ToolCall(name, Obj(<<>>)) : name \in ReadmeTools \ RegisteredTools}

\* the key a tool's client method looks for in the response
EnvelopeKey(name) ==
    CASE name = "databricks_list_warehouses" -> <<"warehouses">>
      [] name = "databricks_list_clusters" -> <<"clusters">>
      [] name = "databricks_list_workspace" -> <<"objects">>
      [] name = "databricks_list_dbfs" -> <<"files">>
      [] name = "databricks_list_catalogs" -> <<"catalogs">>
      [] name = "databricks_list_schemas" -> <<"schemas">>
      [] name = "databricks_list_tables" -> <<"tables">>
      [] name = "databricks_list_volumes" -> <<"volumes">>
      [] name = "databricks_list_functions" -> <<"functions">>
      [] name = "databricks_list_model_versions" -> <<"model_versions">>
      [] name = "databricks_list_secret_scopes" -> <<"scopes">>
      [] name = "databricks_list_secrets" -> <<"secrets">>
      [] name = "databricks_list_secret_acls" -> <<"items">>
      [] name = "databricks_list_git_credentials" -> <<"credentials">>
      [] name = "databricks_list_instance_pools" -> <<"instance_pools">>
      [] name = "databricks_list_tokens" -> <<"token_infos">>
      [] name = "databricks_list_jobs" -> <<"jobs">>
      [] name \in {"databricks_list_runs", "databricks_search_runs"} -> <<"runs">>
      [] name = "databricks_list_cluster_events" -> <<"events">>
      [] name = "databricks_list_experiments" -> <<"experiments">>
      [] name = "databricks_list_models" -> <<"registered_models">>
      [] name = "databricks_list_repos" -> <<"repos">>
      [] name = "databricks_list_pipelines" -> <<"statuses">>
      [] name \in {"databricks_get_experiment", "databricks_get_experiment_by_name"} ->
            <<"experiment">>
      [] name = "databricks_create_run" -> <<"run">>
      [] name \in {"databricks_get_model", "databricks_create_model"} ->
            <<"registered_model">>
      [] name = "databricks_get_model_version" -> <<"model_version">>
      [] name = "databricks_export_notebook" -> <<"content">>
      [] OTHER -> <<"id">>

\* what the workspace answers a tool's request with: bodies with and without
\* the key the method looks for, bodies that are empty, null or cut short, no
\* content, and failures
ToolResponses(name) ==
    {HttpResponse(200, Null, b) :
        b \in {ItemsBody, EmptyObjectBody, EmptyBody, NullBody, TruncatedBody,
               <<P("{"), S(EnvelopeKey(name)), P(":"), P("["), P("{"), S(<<"cluster_id">>),
                 P(":"), S(<<"c1">>), P("}"), P("]"), P(","), S(<<"next_page_token">>),
                 P(":"), S(<<"n2">>), P("}")>>,
               \* a string and an object where the lists are looked for
               <<P("{"), S(<<"clusters">>), P(":"), S(<<"a", "b", "c">>), P(","),
                 S(<<"items">>), P(":"), P("{"), S(<<"length">>), P(":"), N(2),
                 P("}"), P("}")>>}}
    \cup {HttpResponse(204, Null, EmptyBody),
          HttpResponse(401, Null, InternalFailureBody),
          HttpResponse(429, Str(<<"7">>), EmptyBody),
          HttpResponse(500, Null, InternalFailureBody)}

pipelineVars ==
    <<pc, inbound, reply, client, sent, wire, calls, descriptor, response,
      bodyRead, outcome>>

\* request() has run to its end: the client method settles, and the
\* handler that awaited it returns
ToolSettles(c, call) ==
    /\ result' = [result EXCEPT ![c] = ClientReturn(call.awaits, outcome'[c])]
    /\ envelope' = [envelope EXCEPT ![c] = HandlerEnd(call.name, call.args, result'[c])]

\* a tools/call reaches the server made for its POST: a name no tool has,
\* arguments the tool's shape refuses, or the handler runs up to the await in
\* request(); the server serves this one call
CallTool(c, name, args, now) ==
    /\ pc[c] = "ready"
    /\ tool[c] = NoTool
    /\ IF name \notin RegisteredTools \/ ~ShapeAccepts(name, args)
       THEN /\ tool' = [tool EXCEPT ![c] = ToolCall(name, args)]
            /\ envelope' = [envelope EXCEPT ![c] =
                   IF name \notin RegisteredTools THEN ToolNotFound
                   ELSE InvalidArguments]
            /\ result' = [result EXCEPT ![c] = NoOutcome]
            /\ UNCHANGED pipelineVars
       ELSE \E call \in {HandlerCall(name, args)} :
            IF call.t = "throw"
            \* an argument does not parse: the catch of the handler
            THEN /\ tool' = [tool EXCEPT ![c] = ToolCall(name, args)]
                 /\ envelope' = [envelope EXCEPT ![c] = HandlerEnd(name, args, call)]
                 /\ result' = [result EXCEPT ![c] = NoOutcome]
                 /\ UNCHANGED pipelineVars
            \* the client method calls request()
            ELSE \E request \in {ClientCall(call.value.method, call.value.args, now)} :
                 /\ tool' = [tool EXCEPT ![c] =
                        [ToolCall(name, args) EXCEPT !.awaits = call.value.method]]
                 /\ IF request.t = "throw"
                    \* the client method rejects before it calls request()
                    THEN /\ result' = [result EXCEPT ![c] = request]
                         /\ envelope' = [envelope EXCEPT ![c] =
                                HandlerEnd(name, args, request)]
                         /\ UNCHANGED pipelineVars
                    ELSE /\ Request(c, request.value.endpoint, request.value.method,
                                    request.value.payload)
                         /\ IF pc'[c] = "awaiting"
                            THEN /\ result' = [result EXCEPT ![c] = NoOutcome]
                                 /\ envelope' = [envelope EXCEPT ![c] = NoEnvelope]
                            ELSE ToolSettles(c, tool'[c])

\* the response arrives: request() runs to its end, and the client method
\* and the handler with it, or request() awaits response.text()
ToolReceive(c, resp) ==
    /\ tool[c] # NoTool
    /\ Receive(c, resp)
    /\ IF pc'[c] = "reading" THEN UNCHANGED <<result, envelope>>
       ELSE ToolSettles(c, tool[c])
    /\ UNCHANGED tool

\* the body text arrives: request(), the client method and the handler run
\* to their ends
ToolReadBody(c) ==
    /\ tool[c] # NoTool
    /\ ReadBody(c)
    /\ ToolSettles(c, tool[c])
    /\ UNCHANGED tool

\* response.text() rejects while a handler waits
ToolBodyFailure(c) ==
    /\ tool[c] # NoTool
    /\ BodyFailure(c)
    /\ ToolSettles(c, tool[c])
    /\ UNCHANGED tool

\* fetch() rejects while a handler waits
ToolTransportFailure(c) ==
    /\ tool[c] # NoTool
    /\ TransportFailure(c)
    /\ ToolSettles(c, tool[c])
    /\ UNCHANGED tool

NextTools ==
    \* inbound calls that reach a server, with and without the warehouse header
    \/ \E c \in CallIds,
          request \in
              {Inbound("/mcp", "POST", Str(<<"a">>), Str(<<"t1">>), w) : w \in WarehouseValues} :
          Fetch(c, request) /\ UNCHANGED toolVars
    \/ \E c \in CallIds : Handle(c) /\ UNCHANGED toolVars
    \* a client made without validateCredentials, its token empty
    \/ \E c \in CallIds,
          credentials \in
              {[host |-> Str(<<"a">>), token |-> Str(<<>>), warehouseId |-> Undefined]} :
          CreateClient(c, credentials) /\ UNCHANGED toolVars
    \* Date.now() at two moments
    \/ \E c \in CallIds, call \in ToolCalls, now \in {Num(1700), Num(1701)} :
          CallTool(c, call.name, call.args, now)
    \/ \E c \in CallIds : \E resp \in ToolResponses(tool[c].name) : ToolReceive(c, resp)
    \/ \E c \in CallIds : ToolReadBody(c)
    \/ \E c \in CallIds : ToolBodyFailure(c)
    \/ \E c \in CallIds : ToolTransportFailure(c)

SpecTools == Init /\ [][NextTools]_vars

TypeOK ==
    \A c \in CallIds :
        /\ pc[c] \in {"start", "responded", "importing", "ready", "awaiting",
                     "reading"}
        /\ sent[c] \in 0..MaxRequests
        /\ calls[c] \in 0..MaxRequests

----------------------------------------------------------------------------
(* Properties *)

IsMcpPost(request) == request.pathname = "/mcp" /\ request.method = "POST"

\* no header of the request has the name, in any case of its letters, with
\* anything but white space for a value
HeaderMissing(request, name) ==
    \A i \in DOMAIN request.headers :
        ByteLowerCase(request.headers[i].k) = ByteLowerCase(name) =>
            \A j \in DOMAIN request.headers[i].v.s :
                request.headers[i].v.s[j] \in HttpWhitespace

\* the message contains the word
Names(message, word) == \E i \in DOMAIN message.s : message.s[i] = word

\* the `message` member of a JSON response body
ReplyMessage(r) == Get(JSONParse(r.body).value, <<"message">>)

\* C1: a POST /mcp call whose X-Databricks-Host header is absent or empty
\* resolves to host = '' without failing, is refused by validateCredentials
\* with the message that names the host header, and sends no HTTP request.
C1_MissingHostRefused ==
    \A c \in CallIds :
        (IsMcpPost(inbound[c]) /\ HeaderMissing(inbound[c], HostHeader)) =>
            LET credentials == parseTenantCredentials(inbound[c])
                valid == validateCredentials(credentials)
            IN  /\ credentials.host = Str(<<>>)
                /\ valid.t = "throw"
                /\ Names(valid.error.message, "X-Databricks-Host")
                /\ ~Names(valid.error.message, "X-Databricks-Token")
                /\ pc[c] = "responded"
                /\ ReplyMessage(reply[c]) = valid.error.message
                /\ Names(ReplyMessage(reply[c]), "X-Databricks-Host")
                /\ sent[c] = 0
                /\ wire[c] = NoWire

C1_Witness ==
    \E c \in CallIds :
        /\ pc[c] = "responded"
        /\ IsMcpPost(inbound[c])
        /\ ~HasKey(Obj(inbound[c].headers), HostHeader)
        /\ ~HeaderMissing(inbound[c], TokenHeader)
        /\ reply[c].status = 401

\* C2: a POST /mcp call with a non-empty host and an absent or empty token
\* is refused by validateCredentials with a message that names the token
\* header and differs from the missing-host message, and sends no HTTP
\* request.
C2_MissingTokenRefused ==
    \A c \in CallIds :
        (/\ IsMcpPost(inbound[c])
         /\ ~HeaderMissing(inbound[c], HostHeader)
         /\ HeaderMissing(inbound[c], TokenHeader)) =>
            LET valid == validateCredentials(parseTenantCredentials(inbound[c]))
            IN  /\ valid.t = "throw"
                /\ Names(valid.error.message, "X-Databricks-Token")
                /\ ~Names(valid.error.message, "X-Databricks-Host")
                /\ valid.error.message # MissingHostMessage
                /\ pc[c] = "responded"
                /\ ReplyMessage(reply[c]) = valid.error.message
                /\ sent[c] = 0
                /\ wire[c] = NoWire

C2_Witness ==
    \E c \in CallIds :
        /\ pc[c] = "responded"
        /\ IsMcpPost(inbound[c])
        /\ ~HeaderMissing(inbound[c], HostHeader)
        /\ HasKey(Obj(inbound[c].headers), TokenHeader)
        /\ HeaderMissing(inbound[c], TokenHeader)
        /\ reply[c].status = 401

\* the body names the field and says what it is for
Enumerates(body, name) ==
    LET required == Get(JSONParse(body).value, <<"required_headers">>)
    IN  /\ required.t = "obj"
        /\ HasKey(required, name)
        /\ Get(required, name).t = "str"
        /\ Get(required, name).s # <<>>

\* C3: a POST /mcp call that lacks host or token gets a 401 response whose
\* body lists X-Databricks-Host and X-Databricks-Token with their purpose,
\* with no client created and no HTTP request sent; a POST /mcp call with
\* both fields non-empty never gets that response.
C3_UnauthorizedBeforeAnyClient ==
    \A c \in CallIds :
        IsMcpPost(inbound[c]) =>
            IF HeaderMissing(inbound[c], HostHeader)
               \/ HeaderMissing(inbound[c], TokenHeader)
            THEN /\ pc[c] = "responded"
                 /\ reply[c].by = "worker"
                 /\ reply[c].status = 401
                 /\ JSONParse(reply[c].body).ok
                 /\ Enumerates(reply[c].body, HostHeader)
                 /\ Enumerates(reply[c].body, TokenHeader)
                 /\ client[c] = NoClient
                 /\ sent[c] = 0
                 /\ calls[c] = 0
            ELSE /\ client[c].made
                 /\ reply[c] = IF pc[c] = "importing" THEN NoResponse
                                ELSE McpHandlerResponse

C3_Witness ==
    \E c \in CallIds :
        /\ IsMcpPost(inbound[c])
        /\ ~HeaderMissing(inbound[c], HostHeader)
        /\ HeaderMissing(inbound[c], TokenHeader)
        /\ reply[c].status = 401
        /\ Enumerates(reply[c].body, TokenHeader)

\* C4: on a client whose token is empty, request() fails with
\* AuthenticationError for every path, method and body, and the transport
\* is never invoked.
C4_EmptyTokenFailsFast ==
    \A c \in CallIds :
        (client[c].made /\ client[c].credentials.token = Str(<<>>)) =>
            /\ sent[c] = 0
            /\ wire[c] = NoWire
            /\ pc[c] = "ready"
            /\ calls[c] > 0 =>
                 /\ outcome[c].t = "throw"
                 /\ outcome[c].error.kind = "AuthenticationError"
            /\ \A endpoint \in Endpoints, method \in Methods, payload \in Payloads :
                 LET r == RequestSend(client[c], endpoint, WrapperOptions(method, payload))
                 IN  r.t = "throw" /\ r.error.kind = "AuthenticationError"

C4_Witness ==
    \E c \in CallIds :
        /\ client[c].made
        /\ client[c].credentials.token = Str(<<>>)
        /\ calls[c] = MaxRequests
        /\ outcome[c] = Throw(AuthenticationError(NoCredentialsMessage))
        /\ sent[c] = 0

\* the text is an unsigned decimal integer
IsIntegerText(s) == s # <<>> /\ \A i \in DOMAIN s : IsDigit(s[i])

\* the text has few enough digits for its value to be counted here
IsCountable(s) == Len(s) <= 9

\* its value, read from the last digit back
RECURSIVE DecimalValue(_)
DecimalValue(s) ==
    IF s = <<>> THEN 0
    ELSE 10 * DecimalValue(SubSeq(s, 1, Len(s) - 1)) + DigitValue(s[Len(s)])

RetryAfterHeader(resp) == HeadersGet(resp.headers, RetryAfterHeaderName)

\* C5: for status 429, RateLimitError carries the integer of the
\* Retry-After header when the header is an integer, and 60 when the header
\* is absent, whatever the body is.
C5_RetryAfterTaken ==
    \A c \in CallIds :
        response[c].status = 429 =>
            /\ outcome[c].t = "throw"
            /\ outcome[c].error.kind = "RateLimitError"
            /\ ~bodyRead[c]
            /\ RetryAfterHeader(response[c]) = Null =>
                 outcome[c].error.retryAfterSeconds = Num(60)
            /\ (/\ RetryAfterHeader(response[c]) # Null
                /\ IsIntegerText(RetryAfterHeader(response[c]).s)) =>
                 IF IsCountable(RetryAfterHeader(response[c]).s)
                 THEN outcome[c].error.retryAfterSeconds
                          = Num(DecimalValue(RetryAfterHeader(response[c]).s))
                 ELSE /\ ~outcome[c].error.retryAfterSeconds.nan
                      /\ outcome[c].error.retryAfterSeconds.n > 999999999

C5_Witness ==
    \E c \in CallIds :
        /\ response[c].status = 429
        /\ RetryAfterHeader(response[c]) = Str(<<"3", "0">>)
        /\ response[c].body # EmptyBody
        /\ outcome[c].error.retryAfterSeconds = Num(30)

\* C6: for status 429 with a Retry-After header that is present but is not
\* an integer, RateLimitError carries 60, and retryAfterSeconds is always a
\* defined integer.
C6_UnparseableRetryAfterDefaults ==
    \A c \in CallIds :
        response[c].status = 429 =>
            /\ outcome[c].error.retryAfterSeconds.t = "num"
            /\ ~outcome[c].error.retryAfterSeconds.nan
            /\ (/\ RetryAfterHeader(response[c]) # Null
                /\ ~IsIntegerText(RetryAfterHeader(response[c]).s)) =>
                 outcome[c].error.retryAfterSeconds = Num(60)

\* C7: for status 401 or 403 the error is AuthenticationError with one
\* fixed message: the response with any other body gives the same error,
\* and the body is not read.
C7_AuthErrorIgnoresBody ==
    \A c \in CallIds :
        response[c].status \in {401, 403} =>
            /\ outcome[c] = Throw(AuthenticationError(AuthFailedMessage))
            /\ ~bodyRead[c]
            /\ \A b \in Bodies :
                 RequestReceive([response[c] EXCEPT !.body = b]).outcome = outcome[c]

C7_Witness ==
    \E c \in CallIds :
        /\ response[c].status = 401
        /\ response[c].body = InternalFailureBody
        /\ outcome[c].t = "throw"
        /\ outcome[c].error.kind = "AuthenticationError"

IsApiErrorStatus(status) ==
    /\ status # 0
    /\ ~(status >= 200 /\ status <= 299)
    /\ status \notin {429, 401, 403}

\* the member of a parsed object is there and is not the empty string
NonEmptyMember(o, k) ==
    \E i \in DOMAIN o.m : o.m[i].k = k /\ o.m[i].v # Str(<<>>)

MemberOrUndefined(o, k) ==
    IF \E i \in DOMAIN o.m : o.m[i].k = k
    THEN (CHOOSE mem \in {o.m[i] : i \in DOMAIN o.m} : mem.k = k).v
    ELSE Undefined

\* C8: for a non-2xx status s other than 429, 401 and 403 with a JSON
\* object as body, the error is ApiError with httpStatus s, code the body's
\* error_code (undefined when absent) and message the body's non-empty
\* message, else its non-empty error, else "API error: <s>", once the body
\* text has arrived.
C8_ApiErrorFromJsonBody ==
    \A c \in CallIds :
        (/\ IsApiErrorStatus(response[c].status)
         /\ pc[c] = "ready"
         /\ JSONParse(response[c].body).ok
         /\ JSONParse(response[c].body).value.t = "obj") =>
            LET o == JSONParse(response[c].body).value
                s == response[c].status
            IN  /\ outcome[c].t = "throw"
                /\ outcome[c].error.kind = "ApiError"
                /\ outcome[c].error.httpStatus = s
                /\ outcome[c].error.code = MemberOrUndefined(o, <<"error_code">>)
                /\ outcome[c].error.message =
                     IF NonEmptyMember(o, <<"message">>)
                     THEN MemberOrUndefined(o, <<"message">>)
                     ELSE IF NonEmptyMember(o, <<"error">>)
                     THEN MemberOrUndefined(o, <<"error">>)
                     ELSE Str(<<"API", "error:", ToString(s)>>)
                /\ (s = 500 /\ response[c].body = InternalFailureBody) =>
                     outcome[c].error =
                         DatabricksApiError(Str(<<"internal", "failure">>), 500,
                                            Str(<<"E1">>))

C8_Witness ==
    \E c \in CallIds :
        /\ response[c].status = 500
        /\ response[c].body = BothBody
        /\ pc[c] = "ready"
        /\ outcome[c].error.kind = "ApiError"
        /\ outcome[c].error.message = Str(<<"m">>)

NonJsonBodies == {EmptyBody, OopsBody, TruncatedBody, TrailingBody}

\* request() has read the body text of the response to its end
BodyArrived(c) ==
    /\ pc[c] = "ready"
    /\ bodyRead[c]
    /\ response[c].body # BrokenBody

\* C9: for a non-2xx status s other than 429, 401 and 403 with a body that
\* is not JSON, the error is ApiError{s, undefined, "API error: <s>"} once
\* the body text has arrived; the parse failure does not reach the caller.
C9_ApiErrorFromNonJsonBody ==
    \A c \in CallIds :
        (/\ IsApiErrorStatus(response[c].status)
         /\ BodyArrived(c)
         /\ \/ response[c].body \in NonJsonBodies
            \/ ~JSONParse(response[c].body).ok) =>
            /\ outcome[c].t = "throw"
            /\ outcome[c].error.kind = "ApiError"
            /\ outcome[c].error.httpStatus = response[c].status
            /\ outcome[c].error.code = Undefined
            /\ outcome[c].error.message
                 = Str(<<"API", "error:", ToString(response[c].status)>>)

C9_Witness ==
    \E c \in CallIds :
        /\ response[c].status = 500
        /\ response[c].body = OopsBody
        /\ outcome[c] = Throw(DatabricksApiError(Str(<<"API", "error:", "500">>),
                                                 500, Undefined))

\* C10: for status 204 request() returns undefined whatever the body is,
\* malformed bodies included, and the body is not read.
C10_NoContentIgnoresBody ==
    \A c \in CallIds :
        response[c].status = 204 =>
            /\ outcome[c] = Return(Undefined)
            /\ ~bodyRead[c]
            /\ \A b \in Bodies :
                 RequestReceive([response[c] EXCEPT !.body = b]) =
                     [outcome |-> Return(Undefined), bodyRead |-> FALSE]

C10_Witness ==
    \E c \in CallIds :
        /\ response[c].status = 204
        /\ response[c].body = OopsBody
        /\ outcome[c] = Return(Undefined)
        /\ calls[c] > 0

IsDecodedStatus(status) == status >= 200 /\ status <= 299 /\ status # 204

\* the value of {"items":[1,2,3]}
ItemsValue == Obj(<<Member(<<"items">>, Arr(<<Num(1), Num(2), Num(3)>>))>>)

\* C11: for a 2xx status other than 204, request() reads the body text and
\* returns undefined when the text is empty and the parsed value when it is
\* JSON.
C11_SuccessDecoded ==
    \A c \in CallIds :
        (IsDecodedStatus(response[c].status) /\ pc[c] = "ready") =>
            /\ bodyRead[c]
            /\ response[c].body = EmptyBody => outcome[c] = Return(Undefined)
            /\ JSONParse(response[c].body).ok =>
                 outcome[c] = Return(JSONParse(response[c].body).value)
            /\ response[c].body = ItemsBody => outcome[c] = Return(ItemsValue)
            /\ response[c].body = NullBody => outcome[c] = Return(Null)
            /\ response[c].body = EmptyObjectBody => outcome[c] = Return(Obj(<<>>))

C11_Witness ==
    \E c \in CallIds :
        /\ response[c].status = 200
        /\ response[c].body = ItemsBody
        /\ outcome[c] = Return(ItemsValue)
        /\ calls[c] > 0

\* C12: for a 2xx status other than 204 with a non-empty body that is not
\* JSON, request() throws the parse exception: it neither returns a value
\* nor throws AuthenticationError, RateLimitError or ApiError.
C12_DecodeFailurePropagates ==
    \A c \in CallIds :
        (/\ IsDecodedStatus(response[c].status)
         /\ BodyArrived(c)
         /\ response[c].body # EmptyBody
         /\ \/ response[c].body \in NonJsonBodies
            \/ ~JSONParse(response[c].body).ok) =>
            /\ outcome[c].t = "throw"
            /\ outcome[c].error = SyntaxError
            /\ outcome[c].error.kind
                 \notin {"AuthenticationError", "RateLimitError", "ApiError"}

C12_Witness ==
    \E c \in CallIds :
        /\ response[c].status = 200
        /\ response[c].body = TruncatedBody
        /\ outcome[c] = Throw(SyntaxError)

NormalizedKinds == {"AuthenticationError", "RateLimitError", "ApiError"}

\* C13: every outcome of request() is a value or one of AuthenticationError,
\* RateLimitError and ApiError, but for a parse failure on a 2xx body; when
\* the transport fails no raw transport exception reaches the caller.
C13_OnlyNormalizedErrors ==
    \A c \in CallIds :
        (calls[c] > 0 /\ pc[c] = "ready") =>
            \/ outcome[c].t = "return"
            \/ outcome[c].t = "throw" /\ outcome[c].error.kind \in NormalizedKinds
            \/ /\ outcome[c] = Throw(SyntaxError)
               /\ IsDecodedStatus(response[c].status)

EndsWithSlash(s) == s # <<>> /\ s[Len(s)] = "/"

\* the host without the one slash it may end with
WithoutLastSlash(s) == IF EndsWithSlash(s) THEN SubSeq(s, 1, Len(s) - 1) ELSE s

\* the host with one slash more, or one slash less
Twin(s) == IF EndsWithSlash(s) THEN SubSeq(s, 1, Len(s) - 1) ELSE s \o <<"/">>

SentUrl(credentials, endpoint) ==
    RequestSend(createDatabricksClient(credentials), endpoint,
                WrapperOptions("GET", Undefined)).value.url

\* C14: for a host h with no slash at its end, the client built with h and
\* the client built with h + "/" both send to the URL h + path.
C14_TrailingSlashSameUrl ==
    \A c \in CallIds :
        (/\ sent[c] > 0
         /\ ~EndsWithSlash(WithoutLastSlash(client[c].credentials.host.s))) =>
            LET host == client[c].credentials.host.s
                h == WithoutLastSlash(host)
            IN  /\ wire[c].url = Str(h \o descriptor[c].endpoint.s)
                /\ \A endpoint \in Endpoints :
                     SentUrl([client[c].credentials EXCEPT !.host = Str(Twin(host))],
                             endpoint) = Str(h \o endpoint.s)

C14_Witness ==
    \E c \in CallIds :
        /\ sent[c] > 0
        /\ client[c].credentials.host = Str(<<"a", "/">>)
        /\ wire[c].url = Str(<<"a", "/", "api/2.0/clusters/list">>)

\* C15: for every non-empty host, hosts ending in several slashes included,
\* the client's base URL does not end with a slash, so that no URL has "//"
\* where base URL and path meet.
C15_BaseUrlNeverEndsWithSlash ==
    \A c \in CallIds :
        (client[c].made /\ client[c].credentials.host # Str(<<>>)) =>
            /\ ~EndsWithSlash(client[c].baseUrl.s)
            /\ sent[c] > 0 =>
                 LET join == Len(wire[c].url.s) - Len(descriptor[c].endpoint.s)
                 IN  join > 0 /\ wire[c].url.s[join] # "/"

\* C16: on a client with a non-empty token every call of request() hands
\* one HTTP request to the transport, whatever comes back: nothing is sent
\* again after a 429, a 5xx or a transport failure.
C16_OneRequestPerCall ==
    \A c \in CallIds :
        (client[c].made /\ client[c].credentials.token # Str(<<>>)) =>
            sent[c] = calls[c] + (IF pc[c] \in {"awaiting", "reading"} THEN 1 ELSE 0)

C16_Witness ==
    \E c \in CallIds :
        /\ calls[c] >= 2
        /\ sent[c] = calls[c]
        /\ response[c].status = 429
        /\ outcome[c].error.kind = "RateLimitError"

\* C17: every HTTP request handed to the transport carries Authorization =
\* "Bearer " + the client's token and Content-Type = application/json, for
\* every method, with or without a body.
C17_AuthHeadersOnEveryRequest ==
    \A c \in CallIds :
        sent[c] > 0 =>
            /\ wire[c].headers =
                 <<Member(<<"Authorization">>,
                          Str(<<"Bearer">> \o client[c].credentials.token.s)),
                   Member(<<"Content-Type">>, Str(<<"application/json">>))>>
            /\ client[c].credentials.token # Str(<<>>)
            /\ wire[c].method = descriptor[c].method

C17_Witness ==
    \E c \in CallIds :
        /\ sent[c] > 0
        /\ wire[c].method = "DELETE"
        /\ wire[c].body = Undefined
        /\ client[c].credentials.token = Str(<<"t2">>)

\* a payload with nothing in it
IsEmptyPayload(payload) ==
    payload \in {Undefined, Null, Obj(<<>>), Arr(<<>>), Str(<<>>)}

ForbiddenBodies == {Text(<<W("undefined")>>), Text(<<W("null")>>)}

WrapperForwards(c) ==
    /\ wire[c].method = descriptor[c].method
    /\ wire[c].url = Str(client[c].baseUrl.s \o descriptor[c].endpoint.s)
    /\ descriptor[c].method = "GET" => wire[c].body = Undefined
    /\ wire[c].body \notin ForbiddenBodies

\* C18: the wrappers fix the method and forward path and body; get sends no
\* body; post, put, patch and delete send the JSON text of the payload and
\* omit the body when the payload is undefined, null or otherwise empty; no
\* body is the text "undefined" or "null".
C18_EmptyPayloadOmitted ==
    \A c \in CallIds :
        sent[c] > 0 =>
            /\ WrapperForwards(c)
            /\ descriptor[c].method # "GET" =>
                 wire[c].body =
                     IF IsEmptyPayload(descriptor[c].payload) THEN Undefined
                     ELSE Text(JSONStringify(descriptor[c].payload))

\* C19: when inbound calls with different credentials are served at once,
\* every HTTP request goes to the host and carries the token of the inbound
\* call that caused it, and each call's client holds that call's own
\* credentials.
C19_TenantIsolation ==
    \A c \in CallIds :
        client[c].made =>
            LET own == parseTenantCredentials(inbound[c])
            IN  /\ client[c].credentials = own
                /\ sent[c] > 0 =>
                     /\ wire[c].url = Str(own.host.s \o descriptor[c].endpoint.s)
                     /\ Get(Obj(wire[c].headers), <<"Authorization">>)
                          = Str(<<"Bearer">> \o own.token.s)

C19_Witness ==
    \E c \in CallIds, d \in CallIds :
        /\ pc[c] = "awaiting"
        /\ pc[d] = "awaiting"
        /\ calls[d] = 1
        /\ client[c].credentials.host # client[d].credentials.host
        /\ client[c].credentials.token # client[d].credentials.token
        /\ wire[c].url # wire[d].url

\* the outcome of the call on a client newly built from the credentials
FreshOutcome(credentials, d, resp) ==
    LET r == RequestSend(createDatabricksClient(credentials), d.endpoint,
                         WrapperOptions(d.method, d.payload))
    IN  IF r.t = "throw" THEN r
        ELSE IF resp = NoHttpResponse THEN Throw(TransportError)
        ELSE RequestReceive(resp).outcome

HistoryFree ==
    \A c \in CallIds :
        (calls[c] > 0 /\ pc[c] = "ready") =>
            /\ outcome[c] = FreshOutcome(client[c].credentials, descriptor[c], response[c])
            /\ client[c] = createDatabricksClient(client[c].credentials)

ClientUnchanged ==
    \A c \in CallIds : client[c].made => client'[c] = client[c]

\* C20: request() keeps no state between calls: the outcome of a call is
\* the outcome the same request and the same answer give on a new client,
\* whatever calls came before, and no call changes the client's credentials
\* or base URL.
C20_NoStateBetweenCalls == []HistoryFree /\ [][ClientUnchanged]_vars

C20_Witness ==
    \E c \in CallIds :
        /\ calls[c] >= 2
        /\ pc[c] = "ready"
        /\ outcome[c] = Return(ItemsValue)

\* the tools whose client method returns `response.<key> || []`
ListTools ==
    {"databricks_list_warehouses", "databricks_list_clusters",
     "databricks_list_workspace", "databricks_list_dbfs", "databricks_list_catalogs",
     "databricks_list_schemas", "databricks_list_tables", "databricks_list_volumes",
     "databricks_list_functions", "databricks_list_model_versions",
     "databricks_list_secret_scopes", "databricks_list_secrets",
     "databricks_list_secret_acls", "databricks_list_git_credentials",
     "databricks_list_instance_pools", "databricks_list_tokens"}

\* the call's handler has called its client method and the method has settled
Settled(c) == result[c] # NoOutcome

\* the decoded body of the answer the settled method was given
DecodedBody(c) == JSONParse(response[c].body).value

\* C21: a list method that unwraps a key returns the array under that key,
\* in its order, when the decoded 2xx body has the key, and the empty
\* sequence when the decoded body is an object without the key:
\* listSecretAcls gives [1,2,3] for {"items":[1,2,3]} and [] for {}.
C21_ListUnwrapsEnvelope ==
    \A c \in CallIds :
        (/\ tool[c].name \in ListTools
         /\ Settled(c)
         /\ IsDecodedStatus(response[c].status)
         /\ JSONParse(response[c].body).ok
         /\ DecodedBody(c).t = "obj") =>
            LET key == EnvelopeKey(tool[c].name)
            IN  /\ (HasKey(DecodedBody(c), key) /\ Get(DecodedBody(c), key).t = "arr") =>
                      result[c] = Return(Get(DecodedBody(c), key))
                /\ ~HasKey(DecodedBody(c), key) => result[c] = Return(Arr(<<>>))
                /\ (tool[c].name = "databricks_list_secret_acls"
                    /\ response[c].body = ItemsBody) =>
                      result[c] = Return(Arr(<<Num(1), Num(2), Num(3)>>))
                /\ response[c].body = EmptyObjectBody => result[c] = Return(Arr(<<>>))

C21_Witness ==
    \E c \in CallIds :
        /\ tool[c].name = "databricks_list_secret_acls"
        /\ response[c].status = 200
        /\ response[c].body = ItemsBody
        /\ result[c] = Return(Arr(<<Num(1), Num(2), Num(3)>>))
        /\ envelope[c].isError = FALSE

\* the tools/call named a registered tool and its arguments were accepted:
\* the tool's handler ran
HandlerRan(c) ==
    /\ tool[c].name \in RegisteredTools
    /\ ShapeAccepts(tool[c].name, tool[c].args)

\* the handler that ran has returned or rejected
HandlerDone(c) == HandlerRan(c) /\ envelope[c] # NoEnvelope

\* the error thrown while the handler ran, if any: by the parse of an
\* argument, by the client method, or by reading `content` of no response
ThrownInHandler(c) ==
    LET call == HandlerCall(tool[c].name, tool[c].args)
    IN  IF call.t = "throw" THEN call
        ELSE IF result[c].t = "throw" THEN result[c]
        ELSE IF /\ tool[c].name = "databricks_export_notebook"
                /\ result[c] \in {Return(Undefined), Return(Null)}
        THEN Throw(PropertyOfNothing(result[c].value, <<"content">>))
        ELSE NoOutcome

\* C22: every error raised while a registered handler runs (an
\* AuthenticationError, RateLimitError or ApiError, a JSON-decode exception
\* of the response, a JSON-string argument that does not parse) is caught
\* and returned as an error envelope carrying the error's message; a handler
\* never rejects.
C22_HandlerCatchesEverything ==
    \A c \in CallIds :
        HandlerDone(c) =>
            /\ envelope[c].t = "envelope"
            /\ ThrownInHandler(c).t = "throw" =>
                 /\ envelope[c].isError
                 /\ envelope[c].message = ThrownInHandler(c).error.message
            /\ ThrownInHandler(c).t # "throw" => ~envelope[c].isError

C22_Witness ==
    \E c \in CallIds :
        /\ tool[c].name = "databricks_list_clusters"
        /\ result[c].t = "throw"
        /\ result[c].error.kind = "RateLimitError"
        /\ envelope[c] = Envelope(TRUE, RateLimitMessage, Undefined)

\* C23: the warehouse id of the X-Databricks-Warehouse-Id header is the
\* default SQL warehouse: when the inbound call carries the header and
\* databricks_execute_sql is called without a warehouseId, the statement is
\* sent with the header's value as warehouse_id.
C23_HeaderIsDefaultWarehouse ==
    \A c \in CallIds :
        (/\ tool[c].name = "databricks_execute_sql"
         /\ Get(tool[c].args, <<"warehouseId">>) = Undefined
         /\ client[c].made
         /\ client[c].credentials.warehouseId # Undefined) =>
            /\ descriptor[c].endpoint = Str(<<"/", "api/2.0/sql/statements">>)
            /\ Get(descriptor[c].payload, <<"warehouse_id">>)
                 = client[c].credentials.warehouseId
            /\ envelope[c] # InvalidArguments

\* C24: every tool name listed under "Available Tools" in the README is
\* registered by createStatelessServer: a tools/call of a listed name
\* reaches a handler.
C24_ReadmeToolsRegistered ==
    \A c \in CallIds :
        tool[c].name \in ReadmeTools =>
            /\ tool[c].name \in RegisteredTools
            /\ envelope[c] # ToolNotFound

\* the text s has the token in it: a token is one chunk
Mentions(s, token) ==
    /\ s.t = "str"
    /\ \E i \in DOMAIN s.s : \E j \in DOMAIN token.s : s.s[i] = token.s[j]

\* the JSON text has the token in one of its strings
TextMentions(body, token) ==
    /\ body.t = "text"
    /\ \E i \in DOMAIN body.lex : Mentions(Str(body.lex[i].s), token)

NonEmptyTokens == {t \in TokenValues : Truthy(t)}

\* C25: the token is never echoed. A call of request() gives the same
\* result or error under every non-empty token; no error message of
\* request() or of the credential resolver has the token in it; of an
\* outbound request only the Authorization header carries the token.
C25_TokenNeverEchoed ==
    \A c \in CallIds :
        /\ (client[c].made /\ Truthy(client[c].credentials.token)
            /\ calls[c] > 0 /\ pc[c] = "ready") =>
              /\ \A t \in NonEmptyTokens :
                    outcome[c] = FreshOutcome([client[c].credentials EXCEPT !.token = t],
                                              descriptor[c], response[c])
              /\ outcome[c].t = "throw" =>
                    ~Mentions(outcome[c].error.message, client[c].credentials.token)
        /\ (reply[c].by = "worker" /\ reply[c].status = 401
            /\ Truthy(parseTenantCredentials(inbound[c]).token)) =>
              /\ ~Mentions(ReplyMessage(reply[c]), parseTenantCredentials(inbound[c]).token)
              /\ ~TextMentions(Text(reply[c].body), parseTenantCredentials(inbound[c]).token)
        /\ sent[c] > 0 =>
              /\ ~Mentions(wire[c].url, client[c].credentials.token)
              /\ ~TextMentions(wire[c].body, client[c].credentials.token)
              /\ \A i \in DOMAIN wire[c].headers :
                    Mentions(wire[c].headers[i].v, client[c].credentials.token) =>
                        wire[c].headers[i].k = <<"Authorization">>

C25_Witness ==
    \E c \in CallIds :
        /\ client[c].made
        /\ client[c].credentials.token = Str(<<"t2">>)
        /\ pc[c] = "ready"
        /\ outcome[c].t = "throw"
        /\ outcome[c].error.kind = "AuthenticationError"
        /\ response[c].status = 401
        /\ outcome[c] = FreshOutcome([client[c].credentials EXCEPT !.token = Str(<<"t1">>)],
                                     descriptor[c], response[c])

\* C26: a list method returns a sequence whenever its call of request()
\* succeeds, also when request() returned nothing (status 204, or a 2xx
\* with an empty body): it never fails and never returns undefined.
C26_ListAlwaysSequence ==
    \A c \in CallIds :
        (/\ tool[c].name \in ListTools
         /\ Settled(c)
         /\ outcome[c].t = "return") =>
            /\ result[c].t = "return"
            /\ result[c].value.t = "arr"
            /\ outcome[c] = Return(Undefined) => result[c] = Return(Arr(<<>>))

\* the kinds of outcome in their order of precedence, by status alone
StatusKind(status) ==
    IF status = 429 THEN "RateLimitError"
    ELSE IF status \in {401, 403} THEN "AuthenticationError"
    ELSE IF status < 200 \/ status > 299 THEN "ApiError"
    ELSE IF status = 204 THEN "absent"
    ELSE "decoded"

\* the kind of an outcome: a 2xx body that does not decode is still the
\* decoded-JSON branch
OutcomeKind(o) ==
    IF o.t = "throw"
    THEN (IF o.error.kind = "SyntaxError" THEN "decoded" ELSE o.error.kind)
    ELSE IF o.value = Undefined THEN "absent"
    ELSE "decoded"

\* C27: the status alone decides the kind of outcome, in a fixed order:
\* 429, then 401/403, then any other non-2xx, then 204, then the rest of
\* 2xx; whatever the body text says, a response has one kind of outcome, and
\* the body is not read for 429, 401, 403 and 204.
C27_StatusAloneDecides ==
    \A c \in CallIds :
        (response[c] # NoHttpResponse /\ pc[c] = "ready"
         /\ response[c].body # BrokenBody) =>
            /\ StatusKind(response[c].status) # "decoded" =>
                 OutcomeKind(outcome[c]) = StatusKind(response[c].status)
            /\ StatusKind(response[c].status) = "decoded" =>
                 \/ outcome[c] = Throw(SyntaxError)
                 \/ outcome[c].t = "return"
            /\ response[c].status \in {429, 401, 403, 204} => ~bodyRead[c]
            /\ response[c].status = 204 => outcome[c] = Return(Undefined)

C27_Witness ==
    \E c \in CallIds :
        /\ response[c].status = 429
        /\ response[c].body = InternalFailureBody
        /\ outcome[c].t = "throw"
        /\ outcome[c].error.kind = "RateLimitError"
        /\ ~bodyRead[c]

\* C28: testConnection() never throws. It makes one call of request(), a GET
\* of /api/2.0/preview/scim/v2/Me, and returns connected: true exactly when
\* that call succeeds, and connected: false with the error's message for
\* every failure of it (empty token, 401/403, 429, another non-2xx, a
\* transport failure, a 2xx body that does not decode); at most one HTTP
\* request is sent.
C28_TestConnectionNeverThrows ==
    \A c \in CallIds :
        tool[c].name = "databricks_test_connection" =>
            /\ descriptor[c] =
                 Descriptor(Str(<<"/", "api/2.0/preview/scim/v2/Me">>), "GET", Undefined)
            /\ sent[c] <= calls[c] + (IF pc[c] \in {"awaiting", "reading"} THEN 1 ELSE 0)
            /\ pc[c] \in {"awaiting", "reading"} => ~Settled(c)
            /\ pc[c] = "ready" =>
                 /\ result[c].t = "return"
                 /\ Get(result[c].value, <<"connected">>) = Bool(outcome[c].t = "return")
                 /\ outcome[c].t = "throw" =>
                      result[c] = Return(Obj(<<Member(<<"connected">>, Bool(FALSE)),
                                               Member(<<"message">>,
                                                      outcome[c].error.message)>>))
                 /\ ~envelope[c].isError

C28_Witness ==
    \E c \in CallIds :
        /\ tool[c].name = "databricks_test_connection"
        /\ pc[c] = "ready"
        /\ outcome[c] = Throw(TransportError)
        /\ result[c] = Return(Obj(<<Member(<<"connected">>, Bool(FALSE)),
                                    Member(<<"message">>, TransportError.message)>>))

\* the tools that take a JSON string, and the argument that holds it
JsonTools ==
    {"databricks_create_job", "databricks_update_job", "databricks_run_job",
     "databricks_create_pipeline", "databricks_update_pipeline",
     "databricks_create_run", "databricks_create_model"}

JsonArgument(call) ==
    Get(call.args,
        CASE call.name = "databricks_create_job" -> <<"tasks">>
          [] call.name = "databricks_update_job" -> <<"settings">>
          [] call.name = "databricks_run_job" -> <<"parameters">>
          [] call.name \in {"databricks_create_run", "databricks_create_model"} ->
                <<"tags">>
          [] OTHER -> <<"spec">>)

\* the string was given and is not valid JSON
NotJson(call) ==
    /\ call.name \in JsonTools
    /\ JsonArgument(call) # Undefined
    /\ ~JSONParse(JsonArgument(call).lex).ok

\* the handler answered with the parse error and called no client method
RefusedUnsent(c) ==
    /\ envelope[c] = formatError(SyntaxError)
    /\ result[c] = NoOutcome
    /\ pc[c] = "ready"

\* C29 as stated: a JSON-string argument that is not valid JSON gives an
\* error envelope and no HTTP request is sent.
C29_InvalidJsonSendsNothing ==
    \A c \in CallIds : NotJson(tool[c]) => RefusedUnsent(c)

\* the optional JSON strings are parsed only when they are not empty
OptionalJsonTools ==
    {"databricks_run_job", "databricks_create_run", "databricks_create_model"}

Unparseable(call) ==
    /\ NotJson(call)
    /\ call.name \in OptionalJsonTools => Truthy(JsonArgument(call))

\* the request of the call has nothing of the JSON argument in it
SentWithoutArgument(c) ==
    /\ descriptor[c].method = "POST"
    /\ IF tool[c].name = "databricks_run_job"
       THEN descriptor[c].payload =
                Obj(<<Member(<<"job_id">>, Get(tool[c].args, <<"jobId">>))>>)
       ELSE /\ descriptor[c].payload.t = "obj"
            /\ Get(descriptor[c].payload, <<"tags">>) = Undefined
    /\ pc[c] \in {"awaiting", "reading"} \/ Settled(c)

UnparseableRefused ==
    \A c \in CallIds :
        /\ Unparseable(tool[c]) => RefusedUnsent(c)
        /\ (tool[c].name \in OptionalJsonTools /\ JsonArgument(tool[c]) = EmptyText) =>
              SentWithoutArgument(c)

UnparseableSendsNothing ==
    \A c \in CallIds : Unparseable(tool'[c]) => sent'[c] = sent[c]

\* C29, amended: a JSON-string argument that is not valid JSON gives an
\* error envelope and no HTTP request is sent, the empty string included
\* where the argument is required; an optional JSON string that is empty is
\* taken as absent, and the request is sent without it.
C29_UnparseableJsonSendsNothing ==
    []UnparseableRefused /\ [][UnparseableSendsNothing]_vars

C29_Witness ==
    \E c \in CallIds :
        /\ tool[c].name = "databricks_create_run"
        /\ JsonArgument(tool[c]) = NoJsonText
        /\ envelope[c] = formatError(SyntaxError)
        /\ sent[c] = 0
        /\ calls[c] = 0

Given(c, k) == HasKey(tool[c].args, k)

\* C30: databricks_create_cluster never sends both autoscale and
\* num_workers. The spec has autoscale {min_workers, max_workers} exactly
\* when minWorkers and maxWorkers are both given, num_workers exactly when
\* numWorkers is given and one of the two is missing, and
\* autotermination_minutes exactly when autoterminationMinutes is given,
\* 0 included.
C30_AutoscaleOrNumWorkers ==
    \A c \in CallIds :
        tool[c].name = "databricks_create_cluster" =>
            LET spec == descriptor[c].payload
                both == Given(c, <<"minWorkers">>) /\ Given(c, <<"maxWorkers">>)
            IN  /\ descriptor[c].endpoint = Str(<<"/", "api/2.0/clusters/create">>)
                /\ descriptor[c].method = "POST"
                /\ ~(HasKey(spec, <<"autoscale">>) /\ HasKey(spec, <<"num_workers">>))
                /\ HasKey(spec, <<"autoscale">>) <=> both
                /\ both => Get(spec, <<"autoscale">>) =
                      Obj(<<Member(<<"min_workers">>, Get(tool[c].args, <<"minWorkers">>)),
                            Member(<<"max_workers">>, Get(tool[c].args, <<"maxWorkers">>))>>)
                /\ HasKey(spec, <<"num_workers">>) <=> (Given(c, <<"numWorkers">>) /\ ~both)
                /\ HasKey(spec, <<"num_workers">>) =>
                      Get(spec, <<"num_workers">>) = Get(tool[c].args, <<"numWorkers">>)
                /\ HasKey(spec, <<"autotermination_minutes">>)
                      <=> Given(c, <<"autoterminationMinutes">>)
                /\ Given(c, <<"autoterminationMinutes">>) =>
                      Get(spec, <<"autotermination_minutes">>)
                          = Get(tool[c].args, <<"autoterminationMinutes">>)
                /\ (pc[c] = "awaiting" \/ response[c] # NoHttpResponse) =>
                      wire[c].body = Text(JSONStringify(spec))

C30_Witness ==
    \E c \in CallIds :
        /\ tool[c].name = "databricks_create_cluster"
        /\ Given(c, <<"numWorkers">>)
        /\ Given(c, <<"minWorkers">>)
        /\ Given(c, <<"maxWorkers">>)
        /\ Get(tool[c].args, <<"autoterminationMinutes">>) = Num(0)
        /\ pc[c] = "awaiting"
        /\ HasKey(descriptor[c].payload, <<"autoscale">>)
        /\ ~HasKey(descriptor[c].payload, <<"num_workers">>)
        /\ Get(descriptor[c].payload, <<"autotermination_minutes">>) = Num(0)
====
